---- MODULE Spec2Model ----
(***************************************************************************)
(* BlameEngine backend: lap-time delta predictor, counterfactual race      *)
(* simulator, strategy-error estimator, the independent cost estimators,   *)
(* the blame aggregation (full_autopsy / compute_blame) and the autopsy    *)
(* endpoint with its in-process cache.                                     *)
(*                                                                         *)
(* Number representation.  Every reported time is a Python float rounded   *)
(* to 3 (live path) or 2 (mock path) decimals; it is modelled as an        *)
(* integer number of milliseconds.  Unrounded intermediate values of a     *)
(* driver whose race has total_laps = T are exact rationals n / Den(T) ms, *)
(* Den(T) = Q * T, and are carried as the numerator n: fuel_load is a      *)
(* multiple of 1/(100 T), the polynomial fuel effect a multiple of         *)
(* 1/(5 T) ms, a trained model's output a multiple of 1/Q ms.              *)
(***************************************************************************)
EXTENDS Integers, Sequences, FiniteSets, TLC

VARIABLES
    FASTF1_AVAILABLE,  \* telemetry.py:26-32
    ML_MODEL,          \* telemetry.py:35,48  (None or a trained model)
    ML_SCALER,         \* telemetry.py:36,49
    ML_META,           \* telemetry.py:37,50-51
    PYTHONHASHSEED,    \* the interpreter's salt of hash(str), main.py:70
    race,              \* the race session the lap-data provider serves
    quali,             \* the qualifying session the provider serves
    requests,          \* the requests the thread pool is serving, each with its position
    random,            \* the generator of the random module, shared by every thread
    SIMULATIONS_DB,    \* main.py:187
    LEADERBOARD_DB,    \* main.py:188-192
    TELEMETRY_CACHE,   \* main.py:193
    last               \* the last completed call: its operation, inputs, result

\* what no request handler writes: the start-up globals and the sessions
startup == <<FASTF1_AVAILABLE, ML_MODEL, ML_SCALER, ML_META, PYTHONHASHSEED, race, quali>>

\* the stores of the simulation game, which only its own routes write
stores == <<SIMULATIONS_DB, LEADERBOARD_DB>>

\* what a call that runs alone leaves as it found it: a lone compute_blame
\* seeds the generator before it draws, so the generator's state before
\* the call does not reach its result
world == <<startup, requests, random, stores>>

vars == <<world, TELEMETRY_CACHE, last>>

\* Python None for a record-valued object (a loaded artifact, a session, a result)
None == [none |-> TRUE]

\* pandas NaT / NaN in a numeric column (tested with notna(), isna())
NaT == -1

\* the leaderboard the module starts with (main.py:188-192)
SeededLeaderboard ==
    << [rank |-> 1, user |-> "strategist_max", iq |-> 94, wins |-> 47, best_circuit |-> "Monaco"],
       [rank |-> 2, user |-> "pitwall_prophet", iq |-> 91, wins |-> 38, best_circuit |-> "Spa"],
       [rank |-> 3, user |-> "f1_oracle_x", iq |-> 88, wins |-> 35, best_circuit |-> "Suzuka"] >>

(***************************************************************************)
(* Bounds of the model.                                                    *)
(***************************************************************************)
\* worst finishing position of the aggregation specification
MaxPos == 12
\* longest race (in laps) of the simulator specification
MaxLaps == 11
\* the simulator is also called directly with alternate pit laps 0 .. T + MaxAltBeyond
MaxAltBeyond == 1

(***************************************************************************)
(* Arithmetic helpers.                                                     *)
(***************************************************************************)
\* sub-millisecond resolution of unrounded values: 1/Q ms
Q == 5

Den(T) == Q * T

Abs(x) == IF x < 0 THEN -x ELSE x

Max(a, b) == IF a >= b THEN a ELSE b

Min(a, b) == IF a <= b THEN a ELSE b

\* Python round(n/d seconds, 3) in milliseconds, d > 0: nearest, ties to even
RoundDiv(n, d) ==
    LET q == n \div d
        r == n - q * d
    IN  IF 2 * r < d THEN q
        ELSE IF 2 * r > d THEN q + 1
        ELSE IF q % 2 = 0 THEN q ELSE q + 1

\* Python int(n/d) for n/d >= 0 or < 0: truncation toward zero
IntDiv(n, d) == IF n >= 0 THEN n \div d ELSE -((-n) \div d)

\* mutant: the compound is taken as written
Upper_identity(s) == s

\* str.upper() on the compound strings of the model
Upper(s) ==
    CASE s \in {"soft", "Soft"} -> "SOFT"
      [] s = "medium" -> "MEDIUM"
      [] s = "hard" -> "HARD"
      [] OTHER -> s

\* dict.get(key, default) on a record
Get(d, k, default) == IF k \in DOMAIN d THEN d[k] ELSE default

\* list.index(x): 0-based position of the first occurrence, -1 for ValueError
Index(s, x) ==
    IF \E i \in 1..Len(s) : s[i] = x
    THEN (CHOOSE i \in 1..Len(s) : s[i] = x /\ \A j \in 1..(i - 1) : s[j] # x) - 1
    ELSE -1

(***************************************************************************)
(* Lap-time delta predictor (telemetry.py:61-126).                         *)
(***************************************************************************)
\* mutant: HARD shares the code of MEDIUM
COMPOUND_CODE_hard_as_medium(c) ==
    CASE c = "WET" -> 0
      [] c = "INTERMEDIATE" -> 1
      [] c = "HARD" -> 3
      [] c = "MEDIUM" -> 3
      [] c = "SOFT" -> 4
      [] OTHER -> 3

COMPOUND_CODE(c) ==
    CASE c = "WET" -> 0
      [] c = "INTERMEDIATE" -> 1
      [] c = "HARD" -> 2
      [] c = "MEDIUM" -> 3
      [] c = "SOFT" -> 4
      [] OTHER -> 3

CIRCUIT_CLASSES == IF ML_META # None THEN ML_META.circuit_classes ELSE <<>>

max_age_map(c) ==
    CASE c = "SOFT" -> 25
      [] c = "MEDIUM" -> 35
      [] c = "HARD" -> 50
      [] c = "INTERMEDIATE" -> 30
      [] c = "WET" -> 40
      [] OTHER -> 35

cliff_map(c) ==
    CASE c = "SOFT" -> 20
      [] c = "MEDIUM" -> 30
      [] c = "HARD" -> 45
      [] c = "INTERMEDIATE" -> 25
      [] c = "WET" -> 35
      [] OTHER -> 30

\* per-lap degradation of the fallback curve, in ms
deg_per_lap(c) ==
    CASE c = "SOFT" -> 90
      [] c = "MEDIUM" -> 55
      [] c = "HARD" -> 30
      [] c = "INTERMEDIATE" -> 70
      [] c = "WET" -> 50
      [] OTHER -> 55

\* fuel_load = 1.0 - (lap / total_laps) * 0.95, as a multiple of 1/(100 T)
FuelLoad(lap, T) == 100 * T - 95 * lap

\* mutant: the fuel effect grows with the fuel load
_polynomial_lap_delta_fuel(tyre_age, compound, fuel_load, T) ==
    tyre_age * deg_per_lap(Upper(compound)) * Den(T) + (fuel_load * 80 * Q) \div 100

\* _polynomial_lap_delta: tyre_age * rate + (1 - fuel_load) * 0.08,
\* numerator over Den(T)
_polynomial_lap_delta(tyre_age, compound, fuel_load, T) ==
    LET rate == deg_per_lap(Upper(compound))
        fuel_effect == ((100 * T - fuel_load) * 80 * Q) \div 100
    IN  tyre_age * rate * Den(T) + fuel_effect

\* the feature vector built at inference (telemetry.py:89-114);
\* tyre_life_pct is the pair <<tyre_age, max_age>>
Features(tyre_age, compound, fuel_load, lap_number, track_temp, driver_rank, circuit, season) ==
    LET idx == Index(CIRCUIT_CLASSES, circuit)
        circuit_code == IF idx >= 0 THEN idx ELSE Len(CIRCUIT_CLASSES) \div 2
        comp_upper == Upper(compound)
    IN  [tyre_age |-> tyre_age,
         tyre_life_pct |-> <<tyre_age, max_age_map(comp_upper)>>,
         past_cliff |-> IF tyre_age > cliff_map(comp_upper) THEN 1 ELSE 0,
         compound_code |-> COMPOUND_CODE(comp_upper),
         fuel_load |-> fuel_load,
         lap_number |-> lap_number,
         track_temp |-> track_temp,
         driver_rank |-> driver_rank,
         circuit_code |-> circuit_code,
         season |-> season]

\* mutant: a regressor that draws from the generator of the random module
ModelPredict_sampled(model, f, T) ==
    T * (model.bias
         + model.w_age * f.tyre_age
         + model.w_cliff * f.past_cliff
         + model.w_comp * f.compound_code
         + model.w_lap * f.lap_number
         + model.w_circ * f.circuit_code
         + (IF random = None THEN 0 ELSE 1 + random.taken))

\* ML_MODEL.predict(ML_SCALER.transform(features)): the trained regressor is
\* an input of the program; a model is a record of weights in 1/Q ms
ModelPredict(model, f, T) ==
    T * (model.bias
         + model.w_age * f.tyre_age
         + model.w_cliff * f.past_cliff
         + model.w_comp * f.compound_code
         + model.w_lap * f.lap_number
         + model.w_circ * f.circuit_code)

predict_lap_delta(tyre_age, compound, fuel_load, lap_number, track_temp, driver_rank, circuit, season, T) ==
    IF ML_MODEL = None \/ ML_SCALER = None \/ ML_META = None
    THEN _polynomial_lap_delta(tyre_age, compound, fuel_load, T)
    ELSE ModelPredict(ML_MODEL,
                      Features(tyre_age, compound, fuel_load, lap_number,
                               track_temp, driver_rank, circuit, season), T)

\* mutant: an unknown circuit gets the median of the midpoint circuit
_get_circuit_median_midpoint(circuit) ==
    IF ML_META # None
    THEN LET idx == Index(ML_META.circuit_classes, circuit)
             code == IF idx >= 0 THEN idx ELSE Len(ML_META.circuit_classes) \div 2
         IN  Get(ML_META.circuit_medians, code, 90000)
    ELSE 90000

\* circuit median lap time in ms (telemetry.py:243-251)
_get_circuit_median(circuit) ==
    IF ML_META # None /\ "circuit_classes" \in DOMAIN ML_META
    THEN LET idx == Index(ML_META.circuit_classes, circuit)
         IN  IF idx >= 0 /\ "circuit_medians" \in DOMAIN ML_META
             THEN Get(ML_META.circuit_medians, idx, 90000)
             ELSE 90000
    ELSE 90000

(***************************************************************************)
(* Lap data.  A lap table (DataFrame) is a sequence of lap records         *)
(*   [Driver, LapNumber, Compound, PitOutTime, PitInTime, LapTime, Stint,  *)
(*    TyreLife, TrackStatus, Time, Position]                               *)
(* with times in ms and NaT for a missing value.                           *)
(***************************************************************************)
\* mutant: the driver filter is dropped
pick_driver_all(laps, driver) == laps

\* df[df["Driver"] == driver]  /  laps.pick_driver(driver)
pick_driver(laps, driver) == SelectSeq(laps, LAMBDA r : r.Driver = driver)

\* df[df["PitOutTime"].notna()]["LapNumber"].tolist()
PitOutLaps(laps) ==
    LET out == SelectSeq(laps, LAMBDA r : r.PitOutTime # NaT)
    IN  [i \in 1..Len(out) |-> out[i].LapNumber]

\* int(df["LapNumber"].max())
MaxLapNumber(laps) ==
    CHOOSE n \in {laps[i].LapNumber : i \in 1..Len(laps)} :
        \A i \in 1..Len(laps) : laps[i].LapNumber <= n

\* mutant: the compound of the pit lap's own record
_get_next_compound_of_pit_lap(driver_laps, pit_lap) ==
    LET post_pit == SelectSeq(driver_laps, LAMBDA r : r.LapNumber >= pit_lap)
    IN  IF post_pit # <<>> THEN Upper(post_pit[1].Compound) ELSE "HARD"

\* compound used after a pit stop (telemetry.py:254-262)
_get_next_compound(driver_laps, pit_lap) ==
    LET post_pit == SelectSeq(driver_laps, LAMBDA r : r.LapNumber > pit_lap)
    IN  IF post_pit # <<>> THEN Upper(post_pit[1].Compound) ELSE "HARD"

\* starting compound (telemetry.py:169-174)
StartCompound(driver_laps) ==
    LET first_lap == SelectSeq(driver_laps, LAMBDA r : r.LapNumber = 1)
    IN  IF first_lap # <<>> THEN Upper(first_lap[1].Compound) ELSE "MEDIUM"

\* mutant: the tyres keep their age through the stop
RECURSIVE Timeline_no_reset(_, _, _, _, _, _)
Timeline_no_reset(ctx, pit_lap, lap, tyre_age, compound, time) ==
    IF lap > ctx.total_laps THEN time
    ELSE LET fuel == FuelLoad(lap, ctx.total_laps)
             delta == predict_lap_delta(tyre_age, compound, fuel, lap, ctx.track_temp, 10, ctx.circuit, ctx.season, ctx.total_laps)
             circuit_median == _get_circuit_median(ctx.circuit)
             time2 == time + circuit_median * Den(ctx.total_laps) + delta
         IN  IF lap = pit_lap
             THEN Timeline_no_reset(ctx, pit_lap, lap + 1, tyre_age + 1, _get_next_compound(ctx.driver_laps, ctx.actual_pit_lap), time2)
             ELSE Timeline_no_reset(ctx, pit_lap, lap + 1, tyre_age + 1, compound, time2)

(***************************************************************************)
(* Counterfactual race simulator (telemetry.py:131-240).                   *)
(***************************************************************************)
\* one timeline: the loop of telemetry.py:176-195 (with pit_lap the actual
\* pit lap) and of 206-224 (with pit_lap the alternate pit lap); the
\* running total is a numerator over Den(total_laps)
RECURSIVE Timeline(_, _, _, _, _, _)
Timeline(ctx, pit_lap, lap, tyre_age, compound, time) ==
    IF lap > ctx.total_laps THEN time
    ELSE LET fuel == FuelLoad(lap, ctx.total_laps)
             delta == predict_lap_delta(tyre_age, compound, fuel, lap, ctx.track_temp, 10, ctx.circuit, ctx.season, ctx.total_laps)
             circuit_median == _get_circuit_median(ctx.circuit)
             time2 == time + circuit_median * Den(ctx.total_laps) + delta
         IN  IF lap = pit_lap
             THEN Timeline(ctx, pit_lap, lap + 1, 0, _get_next_compound(ctx.driver_laps, ctx.actual_pit_lap), time2)
             ELSE Timeline(ctx, pit_lap, lap + 1, tyre_age + 1, compound, time2)

\* the arguments the same loop hands the predictor, lap by lap
RECURSIVE TimelineCalls(_, _, _, _, _)
TimelineCalls(ctx, pit_lap, lap, tyre_age, compound) ==
    IF lap > ctx.total_laps THEN <<>>
    ELSE LET call == [tyre_age |-> tyre_age, compound |-> compound,
                      fuel_load |-> FuelLoad(lap, ctx.total_laps), lap_number |-> lap]
         IN  IF lap = pit_lap
             THEN <<call>> \o TimelineCalls(ctx, pit_lap, lap + 1, 0, _get_next_compound(ctx.driver_laps, ctx.actual_pit_lap))
             ELSE <<call>> \o TimelineCalls(ctx, pit_lap, lap + 1, tyre_age + 1, compound)

\* the predictor calls of the two timelines of a simulation that reaches
\* telemetry.py:228
SimCalls(race_laps, driver, alt_pit_lap, circuit, season, track_temp) ==
    LET driver_laps == pick_driver(race_laps, driver)
        actual_pit_lap == PitOutLaps(driver_laps)[1]
        ctx == [driver_laps |-> driver_laps,
                total_laps |-> MaxLapNumber(driver_laps),
                actual_pit_lap |-> actual_pit_lap,
                circuit |-> circuit, season |-> season, track_temp |-> track_temp]
    IN  [actual |-> TimelineCalls(ctx, actual_pit_lap, 1, 0, StartCompound(driver_laps)),
         counter |-> TimelineCalls(ctx, alt_pit_lap, 1, 0, StartCompound(driver_laps))]

\* mutant: the counterfactual stop is taken a lap late
SimTotals_late_counter(race_laps, driver, alt_pit_lap, circuit, season, track_temp) ==
    LET driver_laps == pick_driver(race_laps, driver)
        actual_pit_lap == PitOutLaps(driver_laps)[1]
        ctx == [driver_laps |-> driver_laps,
                total_laps |-> MaxLapNumber(driver_laps),
                actual_pit_lap |-> actual_pit_lap,
                circuit |-> circuit, season |-> season, track_temp |-> track_temp]
    IN  [actual_time |-> Timeline(ctx, actual_pit_lap, 1, 0, StartCompound(driver_laps), 0),
         counter_time |-> Timeline(ctx, alt_pit_lap + 1, 1, 0, StartCompound(driver_laps), 0),
         den |-> Den(ctx.total_laps)]

\* the unrounded totals actual_time and counter_time of a simulation that
\* reaches telemetry.py:228, as numerators over Den(total_laps)
SimTotals(race_laps, driver, alt_pit_lap, circuit, season, track_temp) ==
    LET driver_laps == pick_driver(race_laps, driver)
        actual_pit_lap == PitOutLaps(driver_laps)[1]
        ctx == [driver_laps |-> driver_laps,
                total_laps |-> MaxLapNumber(driver_laps),
                actual_pit_lap |-> actual_pit_lap,
                circuit |-> circuit, season |-> season, track_temp |-> track_temp]
    IN  [actual_time |-> Timeline(ctx, actual_pit_lap, 1, 0, StartCompound(driver_laps), 0),
         counter_time |-> Timeline(ctx, alt_pit_lap, 1, 0, StartCompound(driver_laps), 0),
         den |-> Den(ctx.total_laps)]

\* mutant: the difference is taken the other way round
TimeDelta_swapped(t) == t.counter_time - t.actual_time

\* time_delta = actual_time - counter_time (telemetry.py:228)
TimeDelta(t) == t.actual_time - t.counter_time

\* the body of simulate_strategy: the dictionary it returns (result) and,
\* when the two timelines were run, its locals actual_time and counter_time
SimRun(race_laps, driver, alt_pit_lap, circuit, season, track_temp) ==
    LET driver_laps == pick_driver(race_laps, driver)
    IN  IF driver_laps = <<>>
        THEN [result |-> [delta |-> 0, method |-> "no_data"], totals |-> None]
        ELSE IF PitOutLaps(driver_laps) = <<>>
        THEN [result |-> [delta |-> 0, method |-> "no_pit_found"], totals |-> None]
        ELSE LET t == SimTotals(race_laps, driver, alt_pit_lap, circuit, season, track_temp)
                 time_delta == TimeDelta(t)
             IN  [result |->
                    [actual_pit_lap |-> PitOutLaps(driver_laps)[1],
                     alt_pit_lap |-> alt_pit_lap,
                     actual_total_s |-> RoundDiv(t.actual_time, t.den),
                     counter_total_s |-> RoundDiv(t.counter_time, t.den),
                     delta_s |-> RoundDiv(time_delta, t.den),
                     method |-> IF ML_MODEL # None THEN "xgboost_counterfactual"
                                ELSE "polynomial_counterfactual"],
                  totals |-> t]

simulate_strategy(race_laps, driver, alt_pit_lap, circuit, season, track_temp) ==
    SimRun(race_laps, driver, alt_pit_lap, circuit, season, track_temp).result

(***************************************************************************)
(* Strategy-error estimator (telemetry.py:267-314).                        *)
(***************************************************************************)
\* the alternative pit laps tested (telemetry.py:293-300)
StrategyAlternatives(actual_pit, total_laps) ==
    << Max(3, actual_pit - 9),
       Max(3, actual_pit - 6),
       Max(3, actual_pit - 3),
       Min(total_laps - 5, actual_pit + 3),
       Min(total_laps - 5, actual_pit + 6),
       Min(total_laps - 5, actual_pit + 9) >>

\* mutant: every positive delta replaces the best one, larger or not
RECURSIVE BestDelta_last(_, _, _)
BestDelta_last(results, i, best_delta) ==
    IF i > Len(results) THEN best_delta
    ELSE LET delta == Get(results[i], "delta_s", 0)
         IN  BestDelta_last(results, i + 1, IF delta > 0 THEN delta ELSE best_delta)

\* the loop of telemetry.py:302-309 over the simulator's results
RECURSIVE BestDelta(_, _, _)
BestDelta(results, i, best_delta) ==
    IF i > Len(results) THEN best_delta
    ELSE LET delta == Get(results[i], "delta_s", 0)
         IN  BestDelta(results, i + 1, IF delta > best_delta THEN delta ELSE best_delta)

\* the body of compute_strategy_error_ml: the alternatives it hands to the
\* simulator, the simulator's results in order, and the cost it returns
StrategyRun(driver_laps, race_laps, driver, circuit, season, track_temp) ==
    IF PitOutLaps(driver_laps) = <<>>
    THEN [alternatives |-> <<>>, results |-> <<>>, result |-> 0]
    ELSE LET actual_pit == PitOutLaps(driver_laps)[1]
             total_laps == MaxLapNumber(driver_laps)
             alternatives == StrategyAlternatives(actual_pit, total_laps)
             results == [i \in 1..Len(alternatives) |->
                            simulate_strategy(race_laps, driver, alternatives[i], circuit, season, track_temp)]
         IN  [alternatives |-> alternatives,
              results |-> results,
              result |-> -BestDelta(results, 1, 0)]

compute_strategy_error_ml(driver_laps, race_laps, driver, circuit, season, track_temp) ==
    StrategyRun(driver_laps, race_laps, driver, circuit, season, track_temp).result

(***************************************************************************)
(* The five direct cost estimators (telemetry.py:317-445).  Each returns   *)
(* its cost in ms, 0 where the code's except clause returns 0.0.           *)
(***************************************************************************)
\* the elements of a sequence of numbers in non-decreasing order
Sorted(s) == SortSeq(s, LAMBDA a, b : a < b)

\* twice the median of a non-empty sequence of numbers
Median2(s) ==
    LET t == Sorted(s)
        n == Len(t)
    IN  IF n % 2 = 1 THEN 2 * t[(n + 1) \div 2] ELSE t[n \div 2] + t[(n \div 2) + 1]

\* the LapTime column without its missing values
LapTimes(laps) ==
    LET timed == SelectSeq(laps, LAMBDA r : r.LapTime # NaT)
    IN  [i \in 1..Len(timed) |-> timed[i].LapTime]

\* laps.pick_fastest()["LapTime"]: the smallest lap time, NaT when the table
\* has no timed lap (the subscript then raises)
pick_fastest(laps) ==
    LET times == LapTimes(laps)
    IN  IF times = <<>> THEN NaT ELSE Sorted(times)[1]

compute_qualifying_cost(race_session, quali_session, driver) ==
    LET quali_laps == pick_driver(quali_session.laps, driver)
        driver_best == pick_fastest(quali_laps)
        pole_time == pick_fastest(quali_session.laps)
        gap_to_pole == driver_best - pole_time
        race_laps == pick_driver(race_session.laps, driver)
        grid_pos == Get(race_laps[1], "GridPosition", 1)
        traffic == Max(0, (grid_pos - 1) * 120)
    IN  IF driver_best = NaT \/ pole_time = NaT \/ race_laps = <<>> THEN 0
        ELSE -(gap_to_pole + traffic)

\* the laps of stint_num with a lap time (telemetry.py:346-347)
StintLaps(driver_laps, stint_num) ==
    SelectSeq(driver_laps, LAMBDA r : r.Stint = stint_num /\ r.LapTime # NaT)

\* the laps the loops of telemetry.py:345-375 visit: those of the stints
\* with at least 3 timed laps
TyreLaps(driver_laps) ==
    SelectSeq(driver_laps, LAMBDA r : r.LapTime # NaT /\ Len(StintLaps(driver_laps, r.Stint)) >= 3)

\* excess = actual_t - predicted_t of one lap (telemetry.py:354-373),
\* numerator over Den(total_laps)
Excess(driver_laps, lap, circuit, season, track_temp) ==
    LET compound == Upper(StintLaps(driver_laps, lap.Stint)[1].Compound)
        total_laps == MaxLapNumber(driver_laps)
        fuel == FuelLoad(lap.LapNumber, total_laps)
        circuit_med == _get_circuit_median(circuit)
        predicted_delta == predict_lap_delta(lap.TyreLife, compound, fuel, lap.LapNumber, track_temp, 5, circuit, season, total_laps)
    IN  lap.LapTime * Den(total_laps) - (circuit_med * Den(total_laps) + predicted_delta)

\* mutant: every positive excess counts
RECURSIVE ExcessSum_positive(_, _, _, _, _, _)
ExcessSum_positive(driver_laps, laps, i, circuit, season, track_temp) ==
    IF i > Len(laps) THEN 0
    ELSE LET excess == Excess(driver_laps, laps[i], circuit, season, track_temp)
         IN  (IF excess > 0 THEN excess ELSE 0)
             + ExcessSum_positive(driver_laps, laps, i + 1, circuit, season, track_temp)

\* the sum of the excesses above 0.3 s, numerator over Den(total_laps)
RECURSIVE ExcessSum(_, _, _, _, _, _)
ExcessSum(driver_laps, laps, i, circuit, season, track_temp) ==
    IF i > Len(laps) THEN 0
    ELSE LET excess == Excess(driver_laps, laps[i], circuit, season, track_temp)
         IN  (IF excess > 300 * Den(MaxLapNumber(driver_laps)) THEN excess ELSE 0)
             + ExcessSum(driver_laps, laps, i + 1, circuit, season, track_temp)

\* cost = sum of excess * 0.6, capped at 8.0; int() of a missing TyreLife
\* raises
compute_tyre_degradation_cost_ml(driver_laps, circuit, season, track_temp) ==
    LET laps == TyreLaps(driver_laps)
    IN  IF laps = <<>> THEN 0
        ELSE IF \E i \in 1..Len(laps) : laps[i].TyreLife = NaT THEN 0
        ELSE LET den == 5 * Den(MaxLapNumber(driver_laps))
                 cost == 3 * ExcessSum(driver_laps, laps, 1, circuit, season, track_temp)
             IN  -RoundDiv(Min(cost, 8000 * den), den)

RECURSIVE StopExcess(_, _)
StopExcess(pit_laps, i) ==
    IF i > Len(pit_laps) THEN 0
    ELSE (IF pit_laps[i].PitInTime # NaT /\ pit_laps[i].PitOutTime # NaT
          THEN Max(0, (pit_laps[i].PitOutTime - pit_laps[i].PitInTime) - 2400)
          ELSE 0)
         + StopExcess(pit_laps, i + 1)

compute_pit_execution_cost(laps) ==
    LET pit_laps == SelectSeq(laps, LAMBDA r : r.PitOutTime # NaT \/ r.PitInTime # NaT)
    IN  IF pit_laps = <<>> THEN 0 ELSE -StopExcess(pit_laps, 1)

\* the drivers of a lap table, each once
RECURSIVE Drivers(_, _)
Drivers(laps, i) ==
    IF i > Len(laps) THEN <<>>
    ELSE LET rest == Drivers(laps, i + 1)
         IN  IF \E j \in 1..Len(rest) : rest[j] = laps[i].Driver THEN rest
             ELSE <<laps[i].Driver>> \o rest

\* groupby("Driver")["LapTime"].median().sort_values(): twice the median
\* lap time of each driver with a timed lap, in non-decreasing order
FieldTimes2(all_laps) ==
    LET timed == SelectSeq(all_laps, LAMBDA r : r.LapTime # NaT)
        names == Drivers(timed, 1)
    IN  Sorted([i \in 1..Len(names) |-> Median2(LapTimes(pick_driver(timed, names[i])))])

\* deficit = driver_median - reference in quarters of a ms; NaN (None) when
\* the driver has no timed clean lap or the slice iloc[3:-3] is empty
Deficit4(race_session, driver) ==
    LET driver_laps == pick_driver(race_session.laps, driver)
        clean == SelectSeq(driver_laps, LAMBDA r : r.TrackStatus = "1" /\ r.PitOutTime = NaT /\ r.PitInTime = NaT)
        all_laps == SelectSeq(race_session.laps, LAMBDA r : r.TrackStatus = "1" /\ r.PitOutTime = NaT)
        sorted_times == FieldTimes2(all_laps)
        middle == SubSeq(sorted_times, 4, Len(sorted_times) - 3)
    IN  IF LapTimes(clean) = <<>> \/ middle = <<>> THEN None
        ELSE [value |-> 2 * Median2(LapTimes(clean)) - Median2(middle)]

\* mutant: the deficit is not floored at 0
compute_car_pace_deficit_signed(race_session, driver) ==
    LET deficit == Deficit4(race_session, driver)
    IN  IF deficit = None THEN 0
        ELSE IF deficit.value >= 0 THEN -RoundDiv(deficit.value, 4) ELSE RoundDiv(-deficit.value, 4)

\* max(0, deficit) is 0 for a NaN deficit
compute_car_pace_deficit(race_session, driver) ==
    LET deficit == Deficit4(race_session, driver)
    IN  IF deficit = None THEN 0 ELSE -RoundDiv(Max(0, deficit.value), 4)

\* str.contains(pattern, na=False) on the race-control messages of the model
Contains(message, pattern) ==
    CASE pattern = "YELLOW" ->
            message \in {"YELLOW IN TRACK SECTOR 3", "DOUBLE YELLOW IN TRACK SECTOR 7"}
      [] pattern = "SAFETY CAR DEPLOYED" ->
            message \in {"SAFETY CAR DEPLOYED", "VIRTUAL SAFETY CAR DEPLOYED"}
      [] OTHER -> FALSE

\* mutant: a pit lap counts only within one lap of the deployment
RECURSIVE MissedPits_within_one(_, _, _)
MissedPits_within_one(driver_laps, sc_events, i) ==
    IF i > Len(sc_events) THEN 0
    ELSE LET sc == sc_events[i]
             matching == SelectSeq(driver_laps, LAMBDA r : r.Time # NaT /\ sc.Time # NaT /\ r.Time >= sc.Time)
             pit_laps == PitOutLaps(driver_laps)
             missed == /\ matching # <<>>
                       /\ ~ \E j \in 1..Len(pit_laps) : Abs(pit_laps[j] - matching[1].LapNumber) <= 1
         IN  (IF missed THEN 1200 ELSE 0) + MissedPits_within_one(driver_laps, sc_events, i + 1)

\* the loop of telemetry.py:438-443: 1.2 s for each deployment with no pit
\* lap of the driver within 2 laps of the first lap that ends after it
RECURSIVE MissedPits(_, _, _)
MissedPits(driver_laps, sc_events, i) ==
    IF i > Len(sc_events) THEN 0
    ELSE LET sc == sc_events[i]
             matching == SelectSeq(driver_laps, LAMBDA r : r.Time # NaT /\ sc.Time # NaT /\ r.Time >= sc.Time)
             pit_laps == PitOutLaps(driver_laps)
             missed == /\ matching # <<>>
                       /\ ~ \E j \in 1..Len(pit_laps) : Abs(pit_laps[j] - matching[1].LapNumber) <= 2
         IN  (IF missed THEN 1200 ELSE 0) + MissedPits(driver_laps, sc_events, i + 1)

\* a session without race-control messages raises at telemetry.py:432
compute_incident_impact(race_session, driver) ==
    LET messages == race_session.messages
        driver_laps == pick_driver(race_session.laps, driver)
    IN  IF messages = None THEN 0
        ELSE LET yellows == SelectSeq(messages.rows, LAMBDA m : Contains(m.Message, "YELLOW"))
                 sc_events == SelectSeq(messages.rows, LAMBDA m : Contains(m.Message, "SAFETY CAR DEPLOYED"))
             IN  -(Len(yellows) * 80 + MissedPits(driver_laps, sc_events, 1))

(***************************************************************************)
(* Blame aggregation: compute_optimal_position (telemetry.py:448-464), the *)
(* tail of full_autopsy (telemetry.py:528-574) and the mock engine         *)
(* compute_blame (main.py:64-135).                                         *)
(***************************************************************************)
\* the keys of the blame dictionary in insertion order
BlameKeys ==
    <<"qualifying_cost", "tyre_degradation", "pit_execution",
      "strategy_error", "car_pace_deficit", "incident_impact">>

Blame(qualifying, tyre_deg, pit_exec, strategy, car_pace, incident) ==
    [qualifying_cost |-> qualifying, tyre_degradation |-> tyre_deg,
     pit_execution |-> pit_exec, strategy_error |-> strategy,
     car_pace_deficit |-> car_pace, incident_impact |-> incident]

\* mutant: the recoverable positions are rounded, not truncated
compute_optimal_position_rounded(actual_pos, total_loss_seconds, car_pace_deficit) ==
    LET recoverable == Max(0, total_loss_seconds - Abs(car_pace_deficit))
        positions_recover == RoundDiv(recoverable, 2500)
        car_floor == Max(1, IntDiv(Abs(car_pace_deficit), 400) + 1)
    IN  Max(1, Min(Max(actual_pos - positions_recover, car_floor), actual_pos))

\* mutant: the car-limited floor is applied after the cap at actual_pos
compute_optimal_position_floor_last(actual_pos, total_loss_seconds, car_pace_deficit) ==
    LET recoverable == Max(0, total_loss_seconds - Abs(car_pace_deficit))
        positions_recover == IntDiv(recoverable, 2500)
        car_floor == Max(1, IntDiv(Abs(car_pace_deficit), 400) + 1)
    IN  Max(1, Max(Min(actual_pos - positions_recover, actual_pos), car_floor))

\* mutant: the car-pace floor is left out
compute_optimal_position_no_floor(actual_pos, total_loss_seconds, car_pace_deficit) ==
    LET recoverable == Max(0, total_loss_seconds - Abs(car_pace_deficit))
        positions_recover == IntDiv(recoverable, 2500)
        raw_optimal == actual_pos - positions_recover
    IN  Max(1, Min(raw_optimal, actual_pos))

\* telemetry.py:448-464 (race_session and driver are not used by the body)
compute_optimal_position(actual_pos, total_loss_seconds, car_pace_deficit) ==
    LET recoverable == Max(0, total_loss_seconds - Abs(car_pace_deficit))
        positions_recover == IntDiv(recoverable, 2500)
        car_floor == Max(1, IntDiv(Abs(car_pace_deficit), 400) + 1)
        raw_optimal == actual_pos - positions_recover
        optimal == Min(Max(raw_optimal, car_floor), actual_pos)
    IN  Max(1, optimal)

\* mutant: a later key with the same value replaces the earlier one
RECURSIVE MinKey_last(_, _, _)
MinKey_last(blame, i, best) ==
    IF i > Len(BlameKeys) THEN best
    ELSE MinKey_last(blame, i + 1, IF blame[BlameKeys[i]] <= blame[best] THEN BlameKeys[i] ELSE best)

\* min(blame, key=blame.get): the keys are visited in insertion order and a
\* key replaces the best one only when its value is strictly smaller
RECURSIVE MinKey(_, _, _)
MinKey(blame, i, best) ==
    IF i > Len(BlameKeys) THEN best
    ELSE MinKey(blame, i + 1, IF blame[BlameKeys[i]] < blame[best] THEN BlameKeys[i] ELSE best)

\* mutant: the incident term is left out of the sum
TotalLoss_no_incident(qualifying, tyre_deg, pit_exec, strategy, car_pace, incident) ==
    Abs(qualifying + tyre_deg + pit_exec + strategy + car_pace)

\* total_loss (telemetry.py:528, main.py:79)
TotalLoss(qualifying, tyre_deg, pit_exec, strategy, car_pace, incident) ==
    Abs(qualifying + tyre_deg + pit_exec + strategy + car_pace + incident)

\* round(abs(blame[primary_cause]) / total_loss * 100) if total_loss > 0 else 0
PrimaryPct(blame, primary_cause, total_loss) ==
    IF total_loss > 0 THEN RoundDiv(Abs(blame[primary_cause]) * 100, total_loss) ELSE 0

\* model_info of a live report (telemetry.py:545-548)
ModelInfo ==
    IF ML_MODEL # None THEN "XGBoost (MAE=" \o ML_META.mae_seconds \o "s, R2=" \o ML_META.r2_score \o ")"
    ELSE "Polynomial fallback"

\* subscripting a missing ML_META at telemetry.py:546 raises TypeError
ModelInfoRaises == ML_MODEL # None /\ ML_META = None

\* the report full_autopsy builds from the six terms (telemetry.py:528-574)
LiveReport(year, gp, driver, qualifying, tyre_deg, pit_exec, strategy, car_pace, incident, actual_pos, track_temp) ==
    LET total_loss == TotalLoss(qualifying, tyre_deg, pit_exec, strategy, car_pace, incident)
        blame == Blame(qualifying, tyre_deg, pit_exec, strategy, car_pace, incident)
        primary_cause == MinKey(blame, 2, BlameKeys[1])
        primary_pct == PrimaryPct(blame, primary_cause, total_loss)
        optimal_pos == compute_optimal_position(actual_pos, total_loss, car_pace)
        positions_lost == actual_pos - optimal_pos
    IN  [driver |-> driver, gp |-> gp, year |-> year,
         blame |-> blame,
         total_loss |-> total_loss,
         primary_cause |-> primary_cause,
         position |-> [actual |-> actual_pos, optimal |-> optimal_pos,
                       positions_lost |-> positions_lost],
         verdict |-> [primary_cause |-> primary_cause, primary_pct |-> primary_pct,
                      total_deficit |-> RoundDiv(total_loss, 100),
                      saved |-> RoundDiv(Abs(strategy), 10),
                      optimal |-> optimal_pos, actual |-> actual_pos],
         telemetry_source |-> "FastF1 (live)",
         ml_model |-> ModelInfo,
         data_quality |-> "HIGH",
         track_temp |-> track_temp]

\* compute_blame (main.py:64-135).  rnd holds the seven draws of the
\* generator seeded from hash(year, gp, driver): the six uniform draws
\* already rounded to 2 decimals (ms, multiples of 10) and the randint
compute_blame(year, gp, driver, rnd) ==
    LET qualifying == -rnd.qualifying
        tyre_deg == -rnd.tyre_deg
        pit_exec == -rnd.pit_exec
        strategy == -rnd.strategy
        car_pace == -rnd.car_pace
        incident == -rnd.incident
        total_loss == TotalLoss(qualifying, tyre_deg, pit_exec, strategy, car_pace, incident)
        blame == Blame(qualifying, tyre_deg, pit_exec, strategy, car_pace, incident)
        actual_pos == rnd.actual_pos
        recoverable == Max(0, total_loss - Abs(car_pace))
        positions_recoverable == IntDiv(recoverable, 2500)
        car_limited_floor == Max(1, IntDiv(Abs(car_pace), 400) + 1)
        raw_optimal == actual_pos - positions_recoverable
        optimal_pos == Max(1, Min(Max(raw_optimal, car_limited_floor), actual_pos))
        positions_lost == actual_pos - optimal_pos
        primary_cause == MinKey(blame, 2, BlameKeys[1])
        primary_pct == PrimaryPct(blame, primary_cause, total_loss)
    IN  [driver |-> driver, gp |-> gp, year |-> year,
         blame |-> blame,
         total_loss |-> 10 * RoundDiv(total_loss, 10),
         primary_cause |-> primary_cause,
         position |-> [actual |-> actual_pos, optimal |-> optimal_pos,
                       positions_lost |-> positions_lost],
         verdict |-> [primary_cause |-> primary_cause, primary_pct |-> primary_pct,
                      cost |-> Abs(blame[primary_cause]),
                      optimal |-> optimal_pos, actual |-> actual_pos,
                      positions_lost |-> positions_lost],
         telemetry_source |-> "Mock data (FastF1 unavailable)",
         computed_at |-> "utcnow",
         cache_key |-> "md5"]

(***************************************************************************)
(* Inputs: the sessions the lap-data provider can serve and the artifacts  *)
(* the start-up code can have loaded.                                      *)
(***************************************************************************)
Driver == "VER"

\* a lap table of the driver from its shape g: g.T laps, numbered from
\* g.start, the first stop's out-lap g.pit (0: no stop), compound g.c0 before
\* it and g.c1 from it on; g.stop is the stationary time when the stop's
\* in and out times fall on the same lap record (NaT: they do not); every
\* lap takes g.lap_ms; the driver finishes in position g.pos
DriverLaps(g) ==
    [i \in 1..(g.T - g.start + 1) |->
        LET n == i + g.start - 1
            second == g.pit # 0 /\ n >= g.pit
        IN  [Driver |-> Driver,
             LapNumber |-> n,
             Compound |-> IF second THEN g.c1 ELSE g.c0,
             PitOutTime |-> IF n = g.pit THEN n * 90000 - 60000 ELSE NaT,
             PitInTime |-> IF n = g.pit /\ g.stop # NaT THEN n * 90000 - 60000 - g.stop
                           ELSE IF g.pit # 0 /\ n = g.pit - 1 /\ g.stop = NaT THEN n * 90000 - 1000
                           ELSE NaT,
             LapTime |-> g.lap_ms,
             Stint |-> IF second THEN 2 ELSE 1,
             TyreLife |-> IF second THEN n - g.pit + 1 ELSE n,
             TrackStatus |-> "1",
             Time |-> n * 90000,
             Position |-> g.pos]]

\* one lap of another driver of the field
FieldLap(name, lap_ms, pit_out) ==
    [Driver |-> name, LapNumber |-> 1, Compound |-> "MEDIUM", PitOutTime |-> pit_out,
     PitInTime |-> NaT, LapTime |-> lap_ms, Stint |-> 1, TyreLife |-> 1,
     TrackStatus |-> "1", Time |-> 90000, Position |-> 1]

\* the race session: event name, laps of all drivers, track temperature
\* (NaT: no weather data), race-control messages (a table of rows, or None)
Race(circuit, laps, track_temp, messages) ==
    [circuit |-> circuit, laps |-> laps, track_temp |-> track_temp, messages |-> messages]

\* the trained models the provider can have produced (weights in 1/Q ms)
Models ==
    { [bias |-> 3, w_age |-> 301, w_cliff |-> 1000, w_comp |-> -57, w_lap |-> -21, w_circ |-> 11],
      [bias |-> 0, w_age |-> 1, w_cliff |-> 2, w_comp |-> 1, w_lap |-> 0, w_circ |-> 0] }

Scaler == [scaler |-> "StandardScaler"]

Meta ==
    [circuit_classes |-> <<"Monaco Grand Prix", "British Grand Prix", "Japanese Grand Prix">>,
     circuit_medians |-> (0 :> 75000 @@ 1 :> 88000),
     mae_seconds |-> "0.41", r2_score |-> "0.93"]

\* what telemetry.py:40-58 can leave loaded: nothing; the model alone (the
\* scaler failed to load); model and scaler (the metadata failed); all three
Artifacts ==
    {<<None, None, None>>}
    \cup {<<CHOOSE m \in Models : m.bias = 0, s, None>> : s \in {None, Scaler}}
    \cup {<<m, Scaler, Meta>> : m \in Models}

(***************************************************************************)
(* Specification of the simulator and the strategy-error estimator: every  *)
(* race shape up to MaxLaps laps, every artifact state.  Both operations   *)
(* are pure and leave the sessions and artifacts alone, so each behaviour  *)
(* applies one call to the inputs drawn by InitSim.                        *)
(***************************************************************************)
SimCompounds == {"SOFT", "hard"}

SimShapes ==
    {[T |-> 0, start |-> 1, pit |-> 0, c0 |-> "SOFT", c1 |-> "SOFT", stop |-> NaT,
      lap_ms |-> 90000, pos |-> 10]}
    \cup
    {[T |-> T, start |-> 1, pit |-> pit, c0 |-> c0, c1 |-> c1, stop |-> NaT,
      lap_ms |-> 90000, pos |-> 10] :
        T \in 1..MaxLaps, pit \in 0..MaxLaps, c0 \in SimCompounds, c1 \in SimCompounds}

SimRaces ==
    {Race("British Grand Prix", DriverLaps(g) \o <<FieldLap("HAM", 91000, 5000)>>, 35, [rows |-> <<>>]) :
        g \in {h \in SimShapes : h.pit <= h.T /\ (h.pit = 0 => h.c1 = h.c0)}}

InitSim ==
    /\ FASTF1_AVAILABLE = TRUE
    /\ \E a \in Artifacts : ML_MODEL = a[1] /\ ML_SCALER = a[2] /\ ML_META = a[3]
    /\ race \in SimRaces
    /\ quali = None
    /\ PYTHONHASHSEED = 0
    /\ requests = <<>>
    /\ random = None
    /\ SIMULATIONS_DB = <<>>
    /\ LEADERBOARD_DB = SeededLeaderboard
    /\ TELEMETRY_CACHE = <<>>
    /\ last = None

\* a call of simulate_strategy; the unrounded totals are kept beside
\* the result when the simulation ran
SimulateStrategy ==
    \E alt_pit_lap \in -1..(MaxLaps + MaxAltBeyond) :
        LET run == SimRun(race.laps, Driver, alt_pit_lap, race.circuit, 2024, race.track_temp)
        IN  /\ last = None
            /\ last' = [op |-> "simulate_strategy",
                        alt_pit_lap |-> alt_pit_lap,
                        result |-> run.result,
                        totals |-> run.totals,
                        calls |-> IF run.totals = None THEN None
                                  ELSE SimCalls(race.laps, Driver, alt_pit_lap, race.circuit,
                                                2024, race.track_temp)]
            /\ UNCHANGED <<world, TELEMETRY_CACHE>>

\* a call of compute_strategy_error_ml; the alternatives handed to the
\* simulator and its results are kept beside the returned cost
ComputeStrategyError ==
    LET run == StrategyRun(pick_driver(race.laps, Driver), race.laps, Driver, race.circuit, 2024, race.track_temp)
    IN  /\ last = None
        /\ last' = [op |-> "compute_strategy_error_ml",
                    result |-> run.result,
                    alternatives |-> run.alternatives,
                    results |-> run.results]
        /\ UNCHANGED <<world, TELEMETRY_CACHE>>

NextSim == SimulateStrategy \/ ComputeStrategyError

SpecSim == InitSim /\ [][NextSim]_vars

(***************************************************************************)
(* Claims about the strategy-error estimator and the simulator (SpecSim).  *)
(***************************************************************************)
TheDriverLaps == SelectSeq(race.laps, LAMBDA r : r.Driver = Driver)

StrategyCalled == last # None /\ last.op = "compute_strategy_error_ml"

SimulatorCalled == last # None /\ last.op = "simulate_strategy"

\* the simulator ran both timelines and returned totals
SimulatorRan == SimulatorCalled /\ "delta_s" \in DOMAIN last.result

\* C7 (as claimed, for races long enough for the window [3, totalLaps - 5]
\* to hold a lap): the estimator hands six alternate pit laps to the
\* simulator and every one of them lies in [3, totalLaps - 5].
C7_AlternativesInWindow ==
    (StrategyCalled /\ last.alternatives # <<>> /\ MaxLapNumber(TheDriverLaps) >= 8)
    => /\ Len(last.alternatives) = 6
       /\ \A i \in 1..Len(last.alternatives) :
            /\ last.alternatives[i] >= 3
            /\ last.alternatives[i] <= MaxLapNumber(TheDriverLaps) - 5

\* the largest positive delta_s among the simulator's results, 0 if none
LargestPositiveDelta(results) ==
    LET ds == {Get(results[i], "delta_s", 0) : i \in 1..Len(results)} \cup {0}
    IN  CHOOSE m \in ds : \A d \in ds : d <= m

\* C8: the estimator returns the negative of the largest positive delta_s
\* among the six simulated alternatives, 0 when none is positive; the
\* result is never positive.
C8_NegativeOfLargestPositiveDelta ==
    StrategyCalled
    => /\ last.result = -LargestPositiveDelta(last.results)
       /\ last.result <= 0
       /\ (last.alternatives # <<>> => Len(last.results) = 6)

\* C8 witness: some alternative saves time and the estimator reports a cost,
\* although another alternative saves less or loses time.
C8_Witness ==
    /\ StrategyCalled
    /\ last.result < 0
    /\ \E i, j \in 1..Len(last.results) :
          /\ last.results[i].delta_s = -last.result
          /\ last.results[j].delta_s > 0
          /\ last.results[j].delta_s < last.results[i].delta_s

\* C9: for a driver without a pit stop the estimator returns 0.0 and the
\* simulator the zero-delta result tagged "no_pit_found", tagged "no_data"
\* when the driver has no laps at all.
C9_NoPitNoData ==
    /\ (StrategyCalled /\ PitOutLaps(TheDriverLaps) = <<>>) => last.result = 0
    /\ (SimulatorCalled /\ TheDriverLaps # <<>> /\ PitOutLaps(TheDriverLaps) = <<>>)
         => last.result = [delta |-> 0, method |-> "no_pit_found"]
    /\ (SimulatorCalled /\ TheDriverLaps = <<>>)
         => last.result = [delta |-> 0, method |-> "no_data"]

\* C9 witness: the simulator was called for a driver with laps and no stop.
C9_Witness ==
    /\ SimulatorCalled
    /\ TheDriverLaps # <<>>
    /\ PitOutLaps(TheDriverLaps) = <<>>
    /\ last.result.method = "no_pit_found"

\* C10 (as claimed): the reported delta_s is the reported actual_total_s
\* minus the reported counter_total_s, and is positive exactly when the
\* actual timeline is slower than the alternative.
C10_DeltaIsDifferenceOfReportedTotals ==
    SimulatorRan
    => /\ last.result.delta_s = last.result.actual_total_s - last.result.counter_total_s
       /\ (last.result.delta_s > 0 <=> last.totals.actual_time > last.totals.counter_time)

\* the predictor took the fallback curve
FallbackPath == ML_MODEL = None \/ ML_SCALER = None \/ ML_META = None

\* C10 (amended): delta_s is the difference of the unrounded totals rounded
\* to a millisecond, so it is within one millisecond of the difference of
\* the reported totals; a positive delta_s means the actual timeline is
\* slower, a negative one that it is faster; on the fallback path, whose
\* totals are whole milliseconds, the claim holds as stated.
C10_DeltaWithinRounding ==
    SimulatorRan
    => LET r == last.result
           t == last.totals
       IN  /\ Abs(r.delta_s - (r.actual_total_s - r.counter_total_s)) <= 1
           /\ (r.delta_s > 0 => t.actual_time > t.counter_time)
           /\ (r.delta_s < 0 => t.actual_time < t.counter_time)
           /\ (FallbackPath =>
                 /\ r.delta_s = r.actual_total_s - r.counter_total_s
                 /\ (r.delta_s > 0 <=> t.actual_time > t.counter_time))

\* C10 witness: a simulation on the trained-model path whose three reported
\* numbers disagree by a millisecond.
C10_Witness ==
    /\ SimulatorRan
    /\ ~FallbackPath
    /\ last.result.delta_s # last.result.actual_total_s - last.result.counter_total_s

(***************************************************************************)
(* Specification of the aggregation: the tail of full_autopsy on every     *)
(* combination of six cost terms and finishing position, compute_blame on  *)
(* the draws of its generator, compute_optimal_position on its own.  The   *)
(* operations are pure; each behaviour applies one call.                   *)
(***************************************************************************)
\* cost terms the estimators can return, in ms
QualifyingTerms == {0, -1000, -3120}
TyreTerms == {0, -2000, -8000}
PitTerms == {0, -500}
StrategyTerms == {0, -1, -3000}
CarPaceTerms == {0, -399, -1500, -2000}
IncidentTerms == {0, -80, -1280}

\* draws of compute_blame's generator: the ends of each uniform range
\* (main.py:72-77) and of randint(3, 18) (main.py:91), and a value between
MockDraws ==
    [qualifying : {100, 1800}, tyre_deg : {300, 2500}, pit_exec : {100, 1200},
     strategy : {0, 3000}, car_pace : {300, 1200, 2000}, incident : {0, 1500},
     actual_pos : {3, 10, 18}]

InitAgg ==
    /\ FASTF1_AVAILABLE = TRUE
    /\ ML_MODEL = None /\ ML_SCALER = None /\ ML_META = None
    /\ race = None
    /\ quali = None
    /\ PYTHONHASHSEED = 0
    /\ requests = <<>>
    /\ random = None
    /\ SIMULATIONS_DB = <<>>
    /\ LEADERBOARD_DB = SeededLeaderboard
    /\ TELEMETRY_CACHE = <<>>
    /\ last = None

\* full_autopsy from telemetry.py:528 on
Aggregate ==
    \E qualifying \in QualifyingTerms, tyre_deg \in TyreTerms, pit_exec \in PitTerms,
       strategy \in StrategyTerms, car_pace \in CarPaceTerms, incident \in IncidentTerms,
       actual_pos \in 1..MaxPos :
        /\ last = None
        /\ last' = [op |-> "full_autopsy",
                    report |-> LiveReport(2024, "British", Driver, qualifying, tyre_deg, pit_exec,
                                          strategy, car_pace, incident, actual_pos, 35)]
        /\ UNCHANGED <<world, TELEMETRY_CACHE>>

ComputeBlame ==
    \E rnd \in MockDraws :
        /\ last = None
        /\ last' = [op |-> "compute_blame", report |-> compute_blame(2024, "British", Driver, rnd)]
        /\ UNCHANGED <<world, TELEMETRY_CACHE>>

ComputeOptimalPosition ==
    \E actual_pos \in 1..MaxPos,
       total_loss_seconds \in {0, 1000, 2499, 2500, 8000, 30000},
       car_pace_deficit \in {0, -399, -400, -2000, -9000} :
        /\ last = None
        /\ last' = [op |-> "compute_optimal_position",
                    actual_pos |-> actual_pos,
                    total_loss_seconds |-> total_loss_seconds,
                    car_pace_deficit |-> car_pace_deficit,
                    result |-> compute_optimal_position(actual_pos, total_loss_seconds, car_pace_deficit)]
        /\ UNCHANGED <<world, TELEMETRY_CACHE>>

NextAgg == Aggregate \/ ComputeBlame \/ ComputeOptimalPosition

SpecAgg == InitAgg /\ [][NextAgg]_vars

(***************************************************************************)
(* Claims about the aggregation (SpecAgg).                                 *)
(***************************************************************************)
\* a report was produced, by the live tail or by the mock engine
ReportProduced == last # None /\ "report" \in DOMAIN last

LiveProduced == ReportProduced /\ last.op = "full_autopsy"

\* the sum of the values stored in a blame map
BlameSum(blame) ==
    blame.qualifying_cost + blame.tyre_degradation + blame.pit_execution
    + blame.strategy_error + blame.car_pace_deficit + blame.incident_impact

\* C1: in every report, live or mock, optimal_position <= actual_position
\* and positions_lost = actual_position - optimal_position >= 0.
C1_OptimalNeverWorseThanActual ==
    ReportProduced
    => /\ last.report.position.optimal <= last.report.position.actual
       /\ last.report.position.positions_lost
            = last.report.position.actual - last.report.position.optimal
       /\ last.report.position.positions_lost >= 0

\* C1 witness: a live report whose car-limited floor lies behind the actual
\* position, so that the cap at the actual position decides the optimum.
C1_Witness ==
    /\ LiveProduced
    /\ (Abs(last.report.blame.car_pace_deficit) \div 400) + 1 > last.report.position.actual
    /\ last.report.position.optimal = last.report.position.actual

\* C2: in every report total_loss is exactly the absolute value of the sum
\* of the six values stored in the blame map.
C2_TotalLossIsAbsSum ==
    ReportProduced => last.report.total_loss = Abs(BlameSum(last.report.blame))

\* C2 witness: a live report in which all six terms are losses.
C2_Witness ==
    /\ LiveProduced
    /\ \A i \in 1..Len(BlameKeys) : last.report.blame[BlameKeys[i]] < 0
    /\ last.report.total_loss > 0

\* C3: primary_cause is a key of minimum value, the first such key in the
\* fixed order; the terms -1.0, -2.0, -0.5, -3.0, -1.5, -0.0 give
\* total_loss 8.0 and primary_cause strategy_error.
C3_PrimaryCauseIsFirstMinimum ==
    ReportProduced
    => LET b == last.report.blame
           pc == last.report.primary_cause
       IN  /\ \E i \in 1..Len(BlameKeys) :
                /\ pc = BlameKeys[i]
                /\ \A j \in 1..Len(BlameKeys) : b[BlameKeys[j]] >= b[pc]
                /\ \A j \in 1..(i - 1) : b[BlameKeys[j]] > b[pc]
           /\ (b = Blame(-1000, -2000, -500, -3000, -1500, 0)
                => last.report.total_loss = 8000 /\ pc = "strategy_error")

\* C3 witness: the live report of the terms -1.0, -2.0, -0.5, -3.0, -1.5, -0.0.
C3_Witness ==
    /\ LiveProduced
    /\ last.report.blame = Blame(-1000, -2000, -500, -3000, -1500, 0)
    /\ last.report.primary_cause = "strategy_error"

\* clamp with the upper bound deciding when the bounds cross
Clamp(x, lower, upper) == IF x > upper \/ lower > upper THEN upper ELSE IF x < lower THEN lower ELSE x

\* C4: compute_optimal_position returns
\*   clamp(actual - floor(max(0, total_loss - |car_pace|) / 2.5),
\*         lower = max(1, floor(|car_pace| / 0.4) + 1), upper = actual),
\* floored at 1; actual 10, total_loss 8.0, car_pace -2.0 give 8.
C4_OptimalPositionFormula ==
    (last # None /\ last.op = "compute_optimal_position")
    => LET a == last.actual_pos
           t == last.total_loss_seconds
           c == last.car_pace_deficit
           recoverable == IF t - Abs(c) > 0 THEN t - Abs(c) ELSE 0
           lower == IF (Abs(c) \div 400) + 1 > 1 THEN (Abs(c) \div 400) + 1 ELSE 1
           clamped == Clamp(a - (recoverable \div 2500), lower, a)
       IN  /\ last.result = (IF clamped < 1 THEN 1 ELSE clamped)
           /\ ((a = 10 /\ t = 8000 /\ c = -2000) => last.result = 8)

\* C4 witness: the call with actual 10, total_loss 8.0, car_pace -2.0.
C4_Witness ==
    /\ last # None /\ last.op = "compute_optimal_position"
    /\ last.actual_pos = 10 /\ last.total_loss_seconds = 8000 /\ last.car_pace_deficit = -2000
    /\ last.result = 8

(***************************************************************************)
(* The live pipeline full_autopsy (telemetry.py:477-577) and the request   *)
(* handler get_autopsy (main.py:253-271).                                  *)
(***************************************************************************)
\* hash(f"{year}{gp}{driver}") % 10000 under the interpreter's salt
HashMod10000(year, gp, driver) ==
    IF PYTHONHASHSEED = 0 THEN (IF driver = "VER" THEN 1234 ELSE 77) ELSE 77

\* the i-th variate of the generator after random.seed(seed), in thousandths
\* of the unit interval: a fixed stream for each seed
Variate(seed, i) ==
    IF i <= 7
    THEN (IF seed = 1234 THEN <<1000, 0, 1000, 0, 1000, 1000, 0>>[i]
                         ELSE <<0, 1000, 0, 1000, 0, 0, 1000>>[i])
    ELSE (seed + 173 * i) % 1001

\* round(random.uniform(a, b), 2) for the variate u, a and b in ms
uniform(a, b, u) == 10 * RoundDiv(1000 * a + (b - a) * u, 10000)

\* random.randint(a, b) for the variate u
randint(a, b, u) == a + IntDiv((b - a + 1) * u, 1001)

\* the arguments of the six random.uniform calls (main.py:72-77)
UniformBounds ==
    << <<100, 1800>>, <<300, 2500>>, <<100, 1200>>, <<0, 3000>>, <<300, 2000>>, <<0, 1500>> >>

\* the k-th draw of compute_blame for the variate u: six uniform draws,
\* then random.randint(3, 18) (main.py:91)
DrawOf(k, u) ==
    IF k <= 6 THEN uniform(UniformBounds[k][1], UniformBounds[k][2], u) ELSE randint(3, 18, u)

\* the seven draws of compute_blame in the order it takes them
Draws(d) ==
    [qualifying |-> d[1], tyre_deg |-> d[2], pit_exec |-> d[3], strategy |-> d[4],
     car_pace |-> d[5], incident |-> d[6], actual_pos |-> d[7]]

\* the seven draws of random after random.seed(seed), no other thread
\* using the generator meanwhile
RandomDraws(seed) == Draws([k \in 1..7 |-> DrawOf(k, Variate(seed, k))])

\* mutant: the mock report carries the tag of the live pipeline
MockReport_live_tag(year, gp, driver) ==
    [compute_blame(year, gp, driver, RandomDraws(HashMod10000(year, gp, driver)))
        EXCEPT !.telemetry_source = "FastF1 (live)"]

\* compute_blame as its callers call it
MockReport(year, gp, driver) ==
    compute_blame(year, gp, driver, RandomDraws(HashMod10000(year, gp, driver)))

\* the result of the except clause of telemetry.py:576-577
ErrorResult == [error |-> "exception", fallback |-> "mock_data"]

\* track temperature: the median of the weather data, 35.0 without it
TrackTemp(race_session) == IF race_session.track_temp = NaT THEN 35 ELSE race_session.track_temp

full_autopsy(year, gp, driver) ==
    IF ~FASTF1_AVAILABLE THEN MockReport(year, gp, driver)
    ELSE IF race = None \/ quali = None THEN ErrorResult
    ELSE LET driver_laps == pick_driver(race.laps, driver)
             circuit == race.circuit
             track_temp == TrackTemp(race)
             qualifying == compute_qualifying_cost(race, quali, driver)
             tyre_deg == compute_tyre_degradation_cost_ml(driver_laps, circuit, year, track_temp)
             pit_exec == compute_pit_execution_cost(driver_laps)
             strategy == compute_strategy_error_ml(driver_laps, race.laps, driver, circuit, year, track_temp)
             car_pace == compute_car_pace_deficit(race, driver)
             incident == compute_incident_impact(race, driver)
         IN  IF driver_laps = <<>> THEN ErrorResult
             ELSE IF Get(driver_laps[Len(driver_laps)], "Position", 10) = NaT THEN ErrorResult
             ELSE IF ModelInfoRaises THEN ErrorResult
             ELSE LiveReport(year, gp, driver, qualifying, tyre_deg, pit_exec, strategy, car_pace,
                             incident, Get(driver_laps[Len(driver_laps)], "Position", 10), track_temp)

\* cache_key = f"autopsy:{year}:{gp}:{driver}"
CacheKey(year, gp, driver) == <<year, gp, driver>>

\* mutant: the flag replaces the cached report
FromCache_flag_only(cached) == [from_cache |-> TRUE]

\* cached["from_cache"] = True
FromCache(cached) ==
    [k \in DOMAIN cached \cup {"from_cache"} |-> IF k = "from_cache" THEN TRUE ELSE cached[k]]

\* mutant: no result is taken for an error
IsError_never(result) == FALSE

\* "error" in result
IsError(result) == "error" \in DOMAIN result

\* what the handler returns and stores once full_autopsy has returned
\* result (main.py:264-271)
Fallback(result, year, gp, driver) ==
    IF ~IsError(result) THEN result ELSE MockReport(year, gp, driver)

\* the result of the handler on a cache miss (main.py:260-271)
Compute(year, gp, driver) == Fallback(full_autopsy(year, gp, driver), year, gp, driver)

(***************************************************************************)
(* Specification of the service: the sessions the provider serves, the     *)
(* artifacts loaded at start-up and the hash salt are drawn by Init;       *)
(* requests then arrive in any order.                                      *)
(***************************************************************************)
SvcDrivers == {"VER", "HAM"}

\* the field: eight other drivers, one clean lap each, HAM the fastest
Field ==
    << FieldLap("HAM", 88000, NaT), FieldLap("LEC", 88400, NaT), FieldLap("NOR", 88900, NaT),
       FieldLap("SAI", 89300, NaT), FieldLap("RUS", 89501, NaT), FieldLap("ALO", 90200, NaT),
       FieldLap("GAS", 90700, NaT), FieldLap("BOT", 91500, 5000) >>

\* the driver's races: a stop timed on one lap record, no stop, a stop
\* spread over two records, no first lap, an unclassified finish, a race
\* the driver did not start
SvcShapes ==
    { [T |-> 8, start |-> 1, pit |-> 4, c0 |-> "SOFT", c1 |-> "HARD", stop |-> 2900, lap_ms |-> 92000, pos |-> 5],
      [T |-> 8, start |-> 1, pit |-> 0, c0 |-> "MEDIUM", c1 |-> "MEDIUM", stop |-> NaT, lap_ms |-> 87000, pos |-> 1],
      [T |-> 9, start |-> 1, pit |-> 8, c0 |-> "soft", c1 |-> "INTERMEDIATE", stop |-> NaT, lap_ms |-> 90501, pos |-> 12],
      [T |-> 8, start |-> 2, pit |-> 5, c0 |-> "HARD", c1 |-> "SOFT", stop |-> 2000, lap_ms |-> 89400, pos |-> 3],
      [T |-> 8, start |-> 1, pit |-> 4, c0 |-> "SOFT", c1 |-> "HARD", stop |-> 2900, lap_ms |-> 92000, pos |-> NaT],
      [T |-> 0, start |-> 1, pit |-> 0, c0 |-> "SOFT", c1 |-> "SOFT", stop |-> NaT, lap_ms |-> 90000, pos |-> 10] }

\* race-control messages: none recorded, the attribute missing, a race with
\* flags and two deployments, a deployment after the driver's last lap and
\* one without a time
SvcMessages ==
    { [rows |-> <<>>],
      [rows |-> <<
         [Message |-> "YELLOW IN TRACK SECTOR 3", Time |-> 100000],
         [Message |-> "SAFETY CAR DEPLOYED", Time |-> 200000],
         [Message |-> "DOUBLE YELLOW IN TRACK SECTOR 7", Time |-> 400000],
         [Message |-> "VIRTUAL SAFETY CAR DEPLOYED", Time |-> 650000],
         [Message |-> "GREEN LIGHT - PIT EXIT OPEN", Time |-> NaT] >>],
      [rows |-> <<
         [Message |-> "SAFETY CAR DEPLOYED", Time |-> 800000],
         [Message |-> "SAFETY CAR DEPLOYED", Time |-> NaT] >>] }

SvcRaces ==
    {Race(e[1], DriverLaps(g) \o Field, e[2], m) :
        g \in SvcShapes,
        e \in {<<"British Grand Prix", 41>>, <<"Atlantis Grand Prix", NaT>>},
        m \in SvcMessages \cup {None}}

\* qualifying: the driver on pole, 0.312 s off pole, without a timed lap
SvcQualis ==
    { [laps |-> <<FieldLap(Driver, 86000, NaT), FieldLap("HAM", 86100, NaT)>>],
      [laps |-> <<FieldLap(Driver, 86412, NaT), FieldLap(Driver, 87000, NaT), FieldLap("HAM", 86100, NaT)>>],
      [laps |-> <<FieldLap(Driver, NaT, NaT), FieldLap("HAM", 86100, NaT)>>] }

Init ==
    /\ FASTF1_AVAILABLE \in BOOLEAN
    /\ \E a \in Artifacts : ML_MODEL = a[1] /\ ML_SCALER = a[2] /\ ML_META = a[3]
    /\ PYTHONHASHSEED \in {0, 1}
    /\ requests = <<>>
    /\ random = None
    /\ SIMULATIONS_DB = <<>>
    /\ LEADERBOARD_DB = SeededLeaderboard
    /\ race \in (IF FASTF1_AVAILABLE THEN SvcRaces \cup {None} ELSE {None})
    /\ quali \in (IF FASTF1_AVAILABLE /\ race # None THEN SvcQualis \cup {None} ELSE {None})
    /\ TELEMETRY_CACHE = <<>>
    /\ last = None

\* GET /api/v1/autopsy/{year}/{gp}/{driver} answered from the cache
GetAutopsyCached ==
    \E driver \in SvcDrivers :
        LET cache_key == CacheKey(2024, "British", driver)
        IN  /\ cache_key \in DOMAIN TELEMETRY_CACHE
            /\ TELEMETRY_CACHE' = [TELEMETRY_CACHE EXCEPT ![cache_key] = FromCache(@)]
            /\ last' = [op |-> "get_autopsy", driver |-> driver, hit |-> TRUE,
                        pipeline |-> None,
                        result |-> FromCache(TELEMETRY_CACHE[cache_key])]
            /\ UNCHANGED world

\* the same request on a cache miss
GetAutopsyComputed ==
    \E driver \in SvcDrivers :
        LET cache_key == CacheKey(2024, "British", driver)
            pipeline == full_autopsy(2024, "British", driver)
            result == Fallback(pipeline, 2024, "British", driver)
        IN  /\ cache_key \notin DOMAIN TELEMETRY_CACHE
            /\ TELEMETRY_CACHE' = [k \in DOMAIN TELEMETRY_CACHE \cup {cache_key} |->
                                      IF k = cache_key THEN result ELSE TELEMETRY_CACHE[k]]
            /\ last' = [op |-> "get_autopsy", driver |-> driver, hit |-> FALSE,
                        pipeline |-> pipeline, result |-> result]
            /\ UNCHANGED world

Next == GetAutopsyCached \/ GetAutopsyComputed

Spec == Init /\ [][Next]_vars

(***************************************************************************)
(* Claims about the service (Spec).                                        *)
(***************************************************************************)
Answered == last # None /\ last.op = "get_autopsy"

LiveAnswered == Answered /\ Get(last.result, "telemetry_source", "") = "FastF1 (live)"

\* C5: every result returned for an autopsy query (live, mock or served
\* from the cache) has a blame map with all six keys; a factor that cannot
\* be computed (no timed qualifying lap of the driver, no race-control
\* messages) is present with value 0.
C5_AllSixKeysPresent ==
    Answered
    => /\ "blame" \in DOMAIN last.result
       /\ {BlameKeys[i] : i \in 1..Len(BlameKeys)} \subseteq DOMAIN last.result.blame
       /\ Len(BlameKeys) = 6
       /\ (LiveAnswered /\ race.messages = None) => last.result.blame.incident_impact = 0
       /\ (LiveAnswered /\ LapTimes(SelectSeq(quali.laps, LAMBDA r : r.Driver = last.driver)) = <<>>)
            => last.result.blame.qualifying_cost = 0

\* C5 witness: a live report served from the cache whose incident impact
\* could not be computed.
C5_Witness ==
    /\ LiveAnswered
    /\ last.hit
    /\ race.messages = None
    /\ last.result.blame.incident_impact = 0
    /\ last.result.blame.tyre_degradation < 0

\* C6: each of the six cost terms of a returned report is <= 0, on the
\* live and on the mock path.
C6_TermsNonPositive ==
    (Answered /\ "blame" \in DOMAIN last.result)
    => \A k \in DOMAIN last.result.blame : last.result.blame[k] <= 0

\* C6 witness: a live report of a driver faster than the reference pace,
\* whose car-pace term is 0, with losses in qualifying and to incidents.
C6_Witness ==
    /\ LiveAnswered
    /\ Deficit4(race, last.driver) # None
    /\ Deficit4(race, last.driver).value < 0
    /\ last.result.blame.car_pace_deficit = 0
    /\ last.result.blame.qualifying_cost < 0
    /\ last.result.blame.incident_impact < 0

(***************************************************************************)
(* Claims about the predictor's path and its encoders.                     *)
(***************************************************************************)
\* C11: the method tag of a simulator result names the trained-model path
\* exactly when the predictor used the trained model (model, scaler and
\* metadata all loaded), and the fallback path otherwise.
C11_MethodTagNamesPathUsed ==
    SimulatorRan
    => (last.result.method = "xgboost_counterfactual" <=> ~FallbackPath)
       /\ (last.result.method = "polynomial_counterfactual" <=> FallbackPath)

(***************************************************************************)
(* Specification of the predictor: predict_lap_delta and                   *)
(* _get_circuit_median at inference, and the per-lap encoding of           *)
(* extract_lap_features (ml_pipeline.py:110-124) at training, on every     *)
(* artifact state.  The operations are pure; each behaviour applies one    *)
(* call.                                                                   *)
(***************************************************************************)
\* a ratio clipped to [0, 1.5], as the pair <<numerator, denominator>>
Clip15(num, den) ==
    IF num < 0 THEN <<0, 1>> ELSE IF 2 * num > 3 * den THEN <<3, 2>> ELSE <<num, den>>

\* the encoding of one lap by extract_lap_features: compound upper-cased,
\* compound_code, tyre_life_pct (clipped), past_cliff
extract_lap_features(tyre_age, compound) ==
    LET comp == Upper(compound)
    IN  [compound |-> comp,
         compound_code |-> COMPOUND_CODE(comp),
         tyre_life_pct |-> Clip15(tyre_age, max_age_map(comp)),
         past_cliff |-> IF tyre_age > cliff_map(comp) THEN 1 ELSE 0]

\* tyre ages around every cliff age, max age and 1.5 x max age
TyreAges == {0, 1, 20, 21, 25, 26, 30, 31, 35, 37, 38, 45, 46, 53, 75, 76, 90}

Compounds == {"SOFT", "soft", "Soft", "MEDIUM", "medium", "HARD", "hard", "INTERMEDIATE", "WET", "UNKNOWN", "nan"}

Circuits == {"Monaco Grand Prix", "British Grand Prix", "Japanese Grand Prix", "Atlantis Grand Prix"}

\* lap and race length, from which the caller computes fuel_load
LapOfRace == {<<1, 1>>, <<1, 4>>, <<4, 4>>, <<3, 7>>}

InitPred ==
    /\ FASTF1_AVAILABLE = TRUE
    /\ \E a \in Artifacts : ML_MODEL = a[1] /\ ML_SCALER = a[2] /\ ML_META = a[3]
    /\ race = None
    /\ quali = None
    /\ PYTHONHASHSEED = 0
    /\ requests = <<>>
    /\ random = None
    /\ SIMULATIONS_DB = <<>>
    /\ LEADERBOARD_DB = SeededLeaderboard
    /\ TELEMETRY_CACHE = <<>>
    /\ last = None

\* a call of predict_lap_delta; the feature vector is kept beside the
\* result when the call built one
PredictLapDelta ==
    \E tyre_age \in TyreAges, compound \in Compounds, lt \in LapOfRace, circuit \in Circuits :
        /\ last = None
        /\ last' = [op |-> "predict_lap_delta",
                    tyre_age |-> tyre_age, compound |-> compound,
                    fuel_load |-> FuelLoad(lt[1], lt[2]), total_laps |-> lt[2],
                    circuit |-> circuit,
                    features |-> IF ML_MODEL = None \/ ML_SCALER = None \/ ML_META = None THEN None
                                 ELSE Features(tyre_age, compound, FuelLoad(lt[1], lt[2]), lt[1], 35, 10, circuit, 2024),
                    result |-> predict_lap_delta(tyre_age, compound, FuelLoad(lt[1], lt[2]), lt[1], 35, 10, circuit, 2024, lt[2])]
        /\ UNCHANGED <<world, TELEMETRY_CACHE>>

\* a call of _get_circuit_median
GetCircuitMedian ==
    \E circuit \in Circuits :
        /\ last = None
        /\ last' = [op |-> "_get_circuit_median", circuit |-> circuit,
                    result |-> _get_circuit_median(circuit)]
        /\ UNCHANGED <<world, TELEMETRY_CACHE>>

\* the training pipeline encoding one clean lap
ExtractLapFeatures ==
    \E tyre_age \in TyreAges, compound \in Compounds :
        /\ last = None
        /\ last' = [op |-> "extract_lap_features", tyre_age |-> tyre_age, compound |-> compound,
                    features |-> extract_lap_features(tyre_age, compound)]
        /\ UNCHANGED <<world, TELEMETRY_CACHE>>

\* a call of compute_blame between two calls of the predictor: it leaves
\* the generator of the random module seeded and seven variates on
\* (main.py:70-91)
ComputeBlameBetween ==
    \E driver \in {"VER", "HAM"} :
        /\ last # None /\ last.op = "predict_lap_delta"
        /\ random = None
        /\ random' = [seed |-> HashMod10000(2024, "British", driver), taken |-> 7]
        /\ UNCHANGED <<startup, stores, requests, TELEMETRY_CACHE, last>>

\* the predictor called once more with the inputs of the call before; the
\* result of that call is kept as first
PredictLapDeltaAgain ==
    /\ last # None /\ last.op = "predict_lap_delta"
    /\ last' = [op |-> "predict_lap_delta_again",
                tyre_age |-> last.tyre_age, compound |-> last.compound,
                fuel_load |-> last.fuel_load, total_laps |-> last.total_laps,
                circuit |-> last.circuit,
                first |-> last.result,
                result |-> predict_lap_delta(last.tyre_age, last.compound, last.fuel_load,
                                             (100 * last.total_laps - last.fuel_load) \div 95,
                                             35, 10, last.circuit, 2024, last.total_laps)]
    /\ UNCHANGED <<world, TELEMETRY_CACHE>>

NextPred ==
    \/ PredictLapDelta
    \/ GetCircuitMedian
    \/ ExtractLapFeatures
    \/ ComputeBlameBetween
    \/ PredictLapDeltaAgain

SpecPred == InitPred /\ [][NextPred]_vars

(***************************************************************************)
(* Claims about the predictor (SpecPred).                                  *)
(***************************************************************************)
PredictorCalled == last # None /\ last.op = "predict_lap_delta"

\* the predictor built a feature vector, i.e. took the trained-model path
Encoded == PredictorCalled /\ last.features # None

\* the compound the caller means, whatever its case; outside the five
\* known types: MEDIUM
KnownCompound(c) ==
    CASE c \in {"SOFT", "soft", "Soft"} -> "SOFT"
      [] c \in {"MEDIUM", "medium"} -> "MEDIUM"
      [] c \in {"HARD", "hard"} -> "HARD"
      [] c = "INTERMEDIATE" -> "INTERMEDIATE"
      [] c = "WET" -> "WET"
      [] OTHER -> "MEDIUM"

\* the degradation rate of the fallback in ms per lap
CompoundRate(c) ==
    CASE c = "SOFT" -> 90 [] c = "MEDIUM" -> 55 [] c = "HARD" -> 30
      [] c = "INTERMEDIATE" -> 70 [] c = "WET" -> 50

TrainingEncoded == last # None /\ last.op = "extract_lap_features"

\* the fixed per-compound tables of the encoder
MaxAge(c) ==
    CASE c = "SOFT" -> 25 [] c = "MEDIUM" -> 35 [] c = "HARD" -> 50
      [] c = "INTERMEDIATE" -> 30 [] c = "WET" -> 40

CliffAge(c) ==
    CASE c = "SOFT" -> 20 [] c = "MEDIUM" -> 30 [] c = "HARD" -> 45
      [] c = "INTERMEDIATE" -> 25 [] c = "WET" -> 35

CompoundCode(c) ==
    CASE c = "WET" -> 0 [] c = "INTERMEDIATE" -> 1 [] c = "HARD" -> 2
      [] c = "MEDIUM" -> 3 [] c = "SOFT" -> 4

\* the pair pct = <<n, d>> is tyre_age / max_age clamped to [0, 1.5]
IsClampedLifePct(pct, tyre_age, max_age) ==
    IF 2 * tyre_age > 3 * max_age THEN 2 * pct[1] = 3 * pct[2]
    ELSE pct[1] * max_age = tyre_age * pct[2]

\* C13: the encoded tyre_life_pct is tyre_age / max_age[compound] clamped to
\* [0, 1.5], in the feature vector built at inference as well as in the
\* training features: 0 for tyre_age 0, exactly 1.5 far beyond max_age.
C13_TyreLifePctClamped ==
    (Encoded \/ TrainingEncoded)
    => /\ IsClampedLifePct(last.features.tyre_life_pct, last.tyre_age, MaxAge(KnownCompound(last.compound)))
       /\ 2 * last.features.tyre_life_pct[1] <= 3 * last.features.tyre_life_pct[2]
       /\ (last.tyre_age = 0 => last.features.tyre_life_pct[1] = 0)

\* C14: the encoder treats the compound case-insensitively and maps a
\* compound outside the five known types to MEDIUM's code 3, max age 35 and
\* cliff age 30; past_cliff is 1 exactly when tyre_age > cliff_age[compound].
C14_CompoundEncoding ==
    /\ Encoded
        => LET c == KnownCompound(last.compound)
           IN  /\ last.features.compound_code = CompoundCode(c)
               /\ last.features.tyre_life_pct = <<last.tyre_age, MaxAge(c)>>
               /\ (last.features.past_cliff = 1 <=> last.tyre_age > CliffAge(c))
               /\ last.features.past_cliff \in {0, 1}
               /\ (last.compound \in {"UNKNOWN", "nan"}
                    => /\ last.features.compound_code = 3
                       /\ last.features.tyre_life_pct[2] = 35
                       /\ (last.features.past_cliff = 1 <=> last.tyre_age > 30))
    /\ TrainingEncoded
        => LET c == KnownCompound(last.compound)
           IN  /\ last.features.compound_code = CompoundCode(c)
               /\ (last.features.past_cliff = 1 <=> last.tyre_age > CliffAge(c))

\* C14 witness: a lower-case compound past its cliff age, encoded at
\* inference.
C14_Witness ==
    /\ Encoded
    /\ last.compound = "soft" /\ last.tyre_age = 21
    /\ last.features.compound_code = 4
    /\ last.features.past_cliff = 1

\* the circuit is in the vocabulary of the loaded metadata
InVocabulary(circuit) ==
    ML_META # None /\ \E i \in 1..Len(ML_META.circuit_classes) : ML_META.circuit_classes[i] = circuit

\* C15: a circuit outside the trained vocabulary is encoded as the midpoint
\* index len(vocabulary) // 2, and its circuit median is 90.0, as is every
\* circuit's when the metadata is missing; no call fails.
C15_UnknownCircuit ==
    /\ (Encoded /\ ~InVocabulary(last.circuit))
        => /\ last.features.circuit_code = Len(ML_META.circuit_classes) \div 2
           /\ last.result \in Int
    /\ (last # None /\ last.op = "_get_circuit_median" /\ ~InVocabulary(last.circuit))
        => last.result = 90000

\* C15 witness: a call on the trained-model path for a circuit outside the
\* vocabulary of three circuits.
C15_Witness ==
    /\ Encoded
    /\ last.circuit = "Atlantis Grand Prix"
    /\ Len(ML_META.circuit_classes) = 3
    /\ last.features.circuit_code = 1

(***************************************************************************)
(* Claims about failures and the cache (Spec).                             *)
(***************************************************************************)
\* the handler ran the pipeline (the request was not answered from the cache)
Computed == Answered /\ ~last.hit

\* the lap-data provider cannot serve the sessions of the request
SourceUnavailable == ~FASTF1_AVAILABLE \/ race = None \/ quali = None

\* the laps of the requested driver in the race the provider serves
RequestedLaps == SelectSeq(race.laps, LAMBDA r : r.Driver = last.driver)

MockTagged(report) == Get(report, "telemetry_source", "") = "Mock data (FastF1 unavailable)"

\* C16: with the sessions loaded and consistent artifacts, the estimators
\* return 0.0 on missing or malformed lap data and the aggregation still
\* produces the live report from the remaining signals, also for a driver
\* whose lap data is empty.
C16_ReportFromRemainingSignals ==
    (Computed /\ ~SourceUnavailable /\ ~ModelInfoRaises)
    => /\ ~IsError(last.pipeline)
       /\ Get(last.pipeline, "telemetry_source", "") = "FastF1 (live)"
       /\ (RequestedLaps = <<>>
            => \A i \in 1..Len(BlameKeys) : last.pipeline.blame[BlameKeys[i]] = 0)

\* C17 as stated: when the lap-data source is unavailable full_autopsy
\* reports a failure to its caller instead of a report, get_autopsy returns
\* the mock report tagged as mock data, and no error result is returned or
\* cached.
C17_UnavailableSourceIsHardFailure ==
    /\ (Computed /\ SourceUnavailable)
        => /\ IsError(last.pipeline)
           /\ "blame" \notin DOMAIN last.pipeline
           /\ MockTagged(last.result)
    /\ Answered => "error" \notin DOMAIN last.result
    /\ \A k \in DOMAIN TELEMETRY_CACHE : "error" \notin DOMAIN TELEMETRY_CACHE[k]

\* C17 amended: when the provider cannot load a session full_autopsy
\* returns an error result instead of a report; when the provider library
\* itself is absent full_autopsy returns the mock report.  In both cases
\* get_autopsy returns the mock report tagged as mock data, and no error
\* result is returned or cached.
C17_UnavailableSourceFallsBackToMock ==
    /\ (Computed /\ SourceUnavailable /\ FASTF1_AVAILABLE)
        => IsError(last.pipeline) /\ "blame" \notin DOMAIN last.pipeline
    /\ (Computed /\ ~FASTF1_AVAILABLE)
        => ~IsError(last.pipeline) /\ MockTagged(last.pipeline) /\ last.result = last.pipeline
    /\ (Computed /\ SourceUnavailable)
        => MockTagged(last.result) /\ "blame" \in DOMAIN last.result
    /\ Answered => "error" \notin DOMAIN last.result
    /\ \A k \in DOMAIN TELEMETRY_CACHE : "error" \notin DOMAIN TELEMETRY_CACHE[k]

\* C17 witness: the library is present, the race session cannot be loaded,
\* the pipeline returned an error result and the client got the mock report.
C17_Witness ==
    /\ Computed
    /\ FASTF1_AVAILABLE /\ race = None
    /\ IsError(last.pipeline)
    /\ MockTagged(last.result)
    /\ TELEMETRY_CACHE[CacheKey(2024, "British", last.driver)] = last.result

\* a report without the flag a cache hit adds
WithoutFlag(report) == [k \in DOMAIN report \ {"from_cache"} |-> report[k]]

\* C18: once a report is stored under a key, the entry is never evicted or
\* replaced (a hit only adds the from_cache flag to it), and every later
\* request for the key is answered from the cache with the stored report,
\* after any sequence of requests.
C18_StoredReportIsKept ==
    [][\A k \in DOMAIN TELEMETRY_CACHE :
          /\ k \in DOMAIN TELEMETRY_CACHE'
          /\ WithoutFlag(TELEMETRY_CACHE'[k]) = WithoutFlag(TELEMETRY_CACHE[k])
          /\ (last'.driver = k[3]
                => /\ last'.hit
                   /\ last'.result = TELEMETRY_CACHE'[k]
                   /\ WithoutFlag(last'.result) = WithoutFlag(TELEMETRY_CACHE[k]))]_vars

\* C18 witness: both keys are stored and the last request was answered
\* from the cache with the report stored under its key.
C18_Witness ==
    /\ Answered /\ last.hit
    /\ \A d \in SvcDrivers : CacheKey(2024, "British", d) \in DOMAIN TELEMETRY_CACHE
    /\ last.result = TELEMETRY_CACHE[CacheKey(2024, "British", last.driver)]
    /\ "blame" \in DOMAIN last.result

(***************************************************************************)
(* Specification of the service under concurrent requests.  get_autopsy is *)
(* a plain def, so the framework runs each request on a thread of its      *)
(* pool, and the interpreter may switch threads between any two bytecodes  *)
(* of the handler.  A request's position is one of                         *)
(*   "check"        before the test of main.py:256                         *)
(*   "full_autopsy" at the call of main.py:263                             *)
(*   "seed"         at random.seed of main.py:70                           *)
(*   "draw"         at one of the draws of main.py:72-77, 91               *)
(*   "store"        at the assignment of main.py:265 or 270                *)
(*   "done"         returned                                               *)
(* random is the one generator of the random module: what seed it was      *)
(* last given and how many variates were taken from it since.              *)
(***************************************************************************)
MaxRequests == 2

\* the sessions the provider serves in the concurrent runs
ConcRaces ==
    {Race("British Grand Prix", DriverLaps(g) \o Field, 41, None) :
        g \in {h \in SvcShapes : h.pos \in {1, 5}}}

InitConc ==
    /\ FASTF1_AVAILABLE \in BOOLEAN
    /\ \E m \in Models : m.bias = 0 /\ ML_MODEL = m
    /\ ML_SCALER = Scaler
    /\ ML_META = Meta
    /\ PYTHONHASHSEED \in {0, 1}
    /\ race \in (IF FASTF1_AVAILABLE THEN ConcRaces \cup {None} ELSE {None})
    /\ quali \in (IF FASTF1_AVAILABLE /\ race # None THEN SvcQualis ELSE {None})
    /\ requests = <<>>
    /\ random = None
    /\ SIMULATIONS_DB = <<>>
    /\ LEADERBOARD_DB = SeededLeaderboard
    /\ TELEMETRY_CACHE = <<>>
    /\ last = None

\* the request t moves on as req
Step(t, req) == requests' = [requests EXCEPT ![t] = req]

\* the framework hands a new request to a thread of its pool
Arrive ==
    \E driver \in SvcDrivers :
        /\ Len(requests) < MaxRequests
        /\ requests' = Append(requests, [driver |-> driver, pc |-> "check", hit |-> FALSE,
                                         draws |-> <<>>, result |-> None])
        /\ UNCHANGED <<startup, stores, random, TELEMETRY_CACHE, last>>

\* main.py:256-259, the key is in the cache
CheckHit(t) ==
    LET cache_key == CacheKey(2024, "British", requests[t].driver)
    IN  /\ requests[t].pc = "check"
        /\ cache_key \in DOMAIN TELEMETRY_CACHE
        /\ TELEMETRY_CACHE' = [TELEMETRY_CACHE EXCEPT ![cache_key] = FromCache(@)]
        /\ Step(t, [requests[t] EXCEPT !.pc = "done", !.hit = TRUE,
                                       !.result = FromCache(TELEMETRY_CACHE[cache_key])])
        /\ UNCHANGED <<startup, stores, random, last>>

\* main.py:256, the key is not in the cache
CheckMiss(t) ==
    /\ requests[t].pc = "check"
    /\ CacheKey(2024, "British", requests[t].driver) \notin DOMAIN TELEMETRY_CACHE
    /\ Step(t, [requests[t] EXCEPT !.pc = "full_autopsy"])
    /\ UNCHANGED <<startup, stores, random, TELEMETRY_CACHE, last>>

\* main.py:263-264: the pipeline returns a report of the sessions
CallFullAutopsyLive(t) ==
    LET result == full_autopsy(2024, "British", requests[t].driver)
    IN  /\ requests[t].pc = "full_autopsy"
        /\ FASTF1_AVAILABLE
        /\ ~IsError(result)
        /\ Step(t, [requests[t] EXCEPT !.pc = "store", !.result = result])
        /\ UNCHANGED <<startup, stores, random, TELEMETRY_CACHE, last>>

\* main.py:263-269 and telemetry.py:493-495: the pipeline calls
\* compute_blame itself, or returns an error result and the handler calls it
CallComputeBlame(t) ==
    /\ requests[t].pc = "full_autopsy"
    /\ ~FASTF1_AVAILABLE \/ IsError(full_autopsy(2024, "British", requests[t].driver))
    /\ Step(t, [requests[t] EXCEPT !.pc = "seed"])
    /\ UNCHANGED <<startup, stores, random, TELEMETRY_CACHE, last>>

\* main.py:70, random.seed(hash(f"{year}{gp}{driver}") % 10000)
Seed(t) ==
    /\ requests[t].pc = "seed"
    /\ random' = [seed |-> HashMod10000(2024, "British", requests[t].driver), taken |-> 0]
    /\ Step(t, [requests[t] EXCEPT !.pc = "draw"])
    /\ UNCHANGED <<startup, stores, TELEMETRY_CACHE, last>>

\* one of the draws of main.py:72-77 and 91: the next variate of the
\* generator as it stands; after the seventh the report is built
\* (main.py:79-135)
Draw(t) ==
    LET k == Len(requests[t].draws) + 1
        draws == Append(requests[t].draws, DrawOf(k, Variate(random.seed, random.taken + 1)))
    IN  /\ requests[t].pc = "draw"
        /\ random' = [random EXCEPT !.taken = @ + 1]
        /\ Step(t, IF k < 7
                   THEN [requests[t] EXCEPT !.draws = draws]
                   ELSE [requests[t] EXCEPT !.draws = draws, !.pc = "store",
                            !.result = compute_blame(2024, "British", requests[t].driver,
                                                     Draws(draws))])
        /\ UNCHANGED <<startup, stores, TELEMETRY_CACHE, last>>

\* main.py:265-266 and 270-271, TELEMETRY_CACHE[cache_key] = result
Store(t) ==
    LET cache_key == CacheKey(2024, "British", requests[t].driver)
    IN  /\ requests[t].pc = "store"
        /\ TELEMETRY_CACHE' = [k \in DOMAIN TELEMETRY_CACHE \cup {cache_key} |->
                                  IF k = cache_key THEN requests[t].result ELSE TELEMETRY_CACHE[k]]
        /\ Step(t, [requests[t] EXCEPT !.pc = "done"])
        /\ UNCHANGED <<startup, stores, random, last>>

NextConc ==
    \/ Arrive
    \/ \E t \in DOMAIN requests : CheckHit(t)
    \/ \E t \in DOMAIN requests : CheckMiss(t)
    \/ \E t \in DOMAIN requests : CallFullAutopsyLive(t)
    \/ \E t \in DOMAIN requests : CallComputeBlame(t)
    \/ \E t \in DOMAIN requests : Seed(t)
    \/ \E t \in DOMAIN requests : Draw(t)
    \/ \E t \in DOMAIN requests : Store(t)

SpecConc == InitConc /\ [][NextConc]_vars

\* the request t missed the cache and has its report
HasComputed(t) == requests[t].pc \in {"store", "done"} /\ ~requests[t].hit

\* the request t missed the cache and is computing or has computed
Computes(t) == requests[t].pc \in {"full_autopsy", "seed", "draw", "store", "done"} /\ ~requests[t].hit

\* no two requests being served are for the same key
DistinctKeys ==
    \A t, u \in DOMAIN requests : t # u => requests[t].driver # requests[u].driver

\* C19: requests for different keys are independent: the report computed
\* for a key is the report the handler computes for that key when it runs
\* alone, under every interleaving with requests for other keys.
C19_DifferentKeysIndependent ==
    DistinctKeys =>
        \A t \in DOMAIN requests :
            HasComputed(t) => requests[t].result = Compute(2024, "British", requests[t].driver)

\* C20: the autopsy of a key is computed at most once, however the
\* requests for it interleave: no two requests for one key are both past
\* the cache test on the miss branch.
C20_ComputedAtMostOncePerKey ==
    \A t, u \in DOMAIN requests :
        (t # u /\ requests[t].driver = requests[u].driver) => ~(Computes(t) /\ Computes(u))

(***************************************************************************)
(* Claims on repeated calls and on the encoding (C21, C22).                *)
(***************************************************************************)
\* the predictor has been called a second time with the inputs of the first
PredictorCalledAgain == last # None /\ last.op = "predict_lap_delta_again"

CompoundKeys == {"WET", "INTERMEDIATE", "HARD", "MEDIUM", "SOFT"}

\* decoding a compound code with the table that encoded it: the key whose
\* code it is
DecodeCompound(code) ==
    IF \E c \in CompoundKeys : COMPOUND_CODE(c) = code
    THEN CHOOSE c \in CompoundKeys : COMPOUND_CODE(c) = code
    ELSE "?"

\* decoding a circuit code with the vocabulary that encoded it
DecodeCircuit(code) ==
    IF code + 1 \in 1..Len(CIRCUIT_CLASSES) THEN CIRCUIT_CLASSES[code + 1] ELSE "?"

\* the compound a lap record names, whatever its case
CompoundIdentity(c) ==
    IF c \in {"SOFT", "soft", "Soft", "MEDIUM", "medium", "HARD", "hard", "INTERMEDIATE", "WET"}
    THEN KnownCompound(c) ELSE c

\* C22 as stated: decoding compound_code and circuit_code of the feature
\* vector with the same vocabulary recovers the compound and the circuit
\* the lap was encoded from.
C22_RoundTrip ==
    Encoded => /\ DecodeCompound(last.features.compound_code) = CompoundIdentity(last.compound)
               /\ DecodeCircuit(last.features.circuit_code) = last.circuit

\* C22 amended: decoding recovers the compound when it is one of the five
\* known types (in any case) and the circuit when it is in the vocabulary;
\* any other compound decodes to MEDIUM and any other circuit to the middle
\* circuit of the vocabulary.
C22_RoundTripOnVocabulary ==
    Encoded => /\ DecodeCompound(last.features.compound_code) = KnownCompound(last.compound)
               /\ InVocabulary(last.circuit)
                    => DecodeCircuit(last.features.circuit_code) = last.circuit
               /\ ~InVocabulary(last.circuit)
                    => DecodeCircuit(last.features.circuit_code)
                         = CIRCUIT_CLASSES[Len(CIRCUIT_CLASSES) \div 2 + 1]

\* C22 witness: a lap on hard tyres, written in lower case, at a circuit of
\* the vocabulary was encoded, and both decode to what they were.
C22_Witness ==
    /\ Encoded
    /\ last.compound = "hard" /\ last.circuit = "Japanese Grand Prix"
    /\ DecodeCompound(last.features.compound_code) = "HARD"
    /\ DecodeCircuit(last.features.circuit_code) = "Japanese Grand Prix"

(***************************************************************************)
(* Claims on the simulator's timelines (C23, C24, C27), under SpecSim.     *)
(***************************************************************************)
\* the calls of a timeline with pit lap p are the claimed ones: lap L of
\* total_laps with tyre_age L-1 on the starting compound up to p, with
\* tyre_age L-p-1 on the post-pit compound after p
ClaimedCalls(calls, p, total_laps, start, post_pit) ==
    /\ Len(calls) = total_laps
    /\ \A L \in 1..Len(calls) :
          /\ calls[L].lap_number = L
          /\ calls[L].fuel_load = FuelLoad(L, total_laps)
          /\ L <= p => calls[L].tyre_age = L - 1 /\ calls[L].compound = start
          /\ L > p => calls[L].tyre_age = L - p - 1 /\ calls[L].compound = post_pit

\* the sum of circuit_median + delta over the calls, numerator over Den(T)
RECURSIVE SumOfCalls(_, _, _)
SumOfCalls(calls, i, T) ==
    IF i > Len(calls) THEN 0
    ELSE _get_circuit_median(race.circuit) * Den(T)
         + predict_lap_delta(calls[i].tyre_age, calls[i].compound, calls[i].fuel_load,
                             calls[i].lap_number, race.track_temp, 10, race.circuit, 2024, T)
         + SumOfCalls(calls, i + 1, T)

\* the compound the driver's lap table shows after the actual stop
ObservedPostPit ==
    LET p == PitOutLaps(TheDriverLaps)[1]
        after == {i \in 1..Len(TheDriverLaps) : TheDriverLaps[i].LapNumber > p}
    IN  IF after = {} THEN "HARD"
        ELSE KnownCompound(TheDriverLaps[CHOOSE i \in after : \A j \in after : i <= j].Compound)

\* C23 as stated: in the timeline with pit lap p the predictor is called
\* for L = 1..totalLaps with tyre_age L-1 and the starting compound for
\* L <= p, with tyre_age L-p-1 and the post-pit compound for L > p, with
\* fuel_load = 1 - (L/totalLaps) x 0.95; the total is the sum of
\* circuit_median + delta; the two timelines differ in p only.
C23_TimelineCalls ==
    SimulatorRan
    => LET T == MaxLapNumber(TheDriverLaps)
           start == KnownCompound(TheDriverLaps[1].Compound)
       IN  /\ ClaimedCalls(last.calls.actual, PitOutLaps(TheDriverLaps)[1], T, start, ObservedPostPit)
           /\ ClaimedCalls(last.calls.counter, last.alt_pit_lap, T, start, ObservedPostPit)
           /\ last.totals.actual_time = SumOfCalls(last.calls.actual, 1, T)
           /\ last.totals.counter_time = SumOfCalls(last.calls.counter, 1, T)

\* C23 amended: as stated for a pit lap p >= 1; for p < 1 no lap matches
\* the pit lap, so every lap L is run with tyre_age L-1 on the starting
\* compound, as for p >= totalLaps.
C23_TimelineCallsFromLapOne ==
    SimulatorRan
    => LET T == MaxLapNumber(TheDriverLaps)
           start == KnownCompound(TheDriverLaps[1].Compound)
           alt == IF last.alt_pit_lap < 1 THEN T ELSE last.alt_pit_lap
       IN  /\ ClaimedCalls(last.calls.actual, PitOutLaps(TheDriverLaps)[1], T, start, ObservedPostPit)
           /\ ClaimedCalls(last.calls.counter, alt, T, start, ObservedPostPit)
           /\ last.totals.actual_time = SumOfCalls(last.calls.actual, 1, T)
           /\ last.totals.counter_time = SumOfCalls(last.calls.counter, 1, T)

\* C23 witness: a simulation whose alternate pit lap is earlier than the
\* actual one, on two different compounds, with laps after both.
C23_Witness ==
    /\ SimulatorRan
    /\ last.alt_pit_lap >= 1
    /\ last.alt_pit_lap < PitOutLaps(TheDriverLaps)[1]
    /\ PitOutLaps(TheDriverLaps)[1] < MaxLapNumber(TheDriverLaps)
    /\ last.calls.counter[last.alt_pit_lap + 1].tyre_age = 0
    /\ last.calls.counter[last.alt_pit_lap + 1].compound # last.calls.counter[1].compound
    /\ last.calls.actual[last.alt_pit_lap + 1].tyre_age = last.alt_pit_lap
    /\ last.totals.actual_time # last.totals.counter_time

\* the laps of a timeline that come after its pit lap p run on compound c
AfterPitOn(calls, p, c) ==
    \A L \in 1..Len(calls) : (p >= 1 /\ L > p) => calls[L].compound = c

\* C24: in both timelines the compound after the pit is the compound of the
\* first lap record after the actual pit lap, HARD when there is no such
\* record, whatever alternate pit lap is evaluated.
C24_PostPitCompoundObserved ==
    SimulatorRan
    => /\ AfterPitOn(last.calls.actual, PitOutLaps(TheDriverLaps)[1], ObservedPostPit)
       /\ AfterPitOn(last.calls.counter, last.alt_pit_lap, ObservedPostPit)
       /\ \A L \in 1..Len(last.calls.counter) :
             last.calls.counter[L].compound
                \in {KnownCompound(TheDriverLaps[1].Compound), ObservedPostPit}

\* C24 witness: the driver came out of the pits on the last lap on soft
\* tyres, so no record follows the stop; the alternative stops earlier and
\* its timeline continues on HARD.
C24_Witness ==
    /\ SimulatorRan
    /\ PitOutLaps(TheDriverLaps)[1] = MaxLapNumber(TheDriverLaps)
    /\ TheDriverLaps[Len(TheDriverLaps)].Compound = "SOFT"
    /\ last.alt_pit_lap >= 1
    /\ last.alt_pit_lap < PitOutLaps(TheDriverLaps)[1]
    /\ last.calls.counter[last.alt_pit_lap].compound = "SOFT"
    /\ last.calls.counter[last.alt_pit_lap + 1].compound = "HARD"

(***************************************************************************)
(* Claims on the cost estimators inside the live report (C25, C26), under  *)
(* Spec: the terms are read from the report of a computed request.         *)
(***************************************************************************)
\* a request was computed by the live pipeline from the provider's sessions
LiveComputed == Computed /\ ~IsError(last.pipeline) /\ ~MockTagged(last.pipeline)

\* the sum over laps of max(0, excess), numerator over Den(total_laps)
RECURSIVE PositiveExcessSum(_, _)
PositiveExcessSum(laps, i) ==
    IF i > Len(laps) THEN 0
    ELSE Max(0, Excess(RequestedLaps, laps[i], race.circuit, 2024, TrackTemp(race)))
         + PositiveExcessSum(laps, i + 1)

\* the sum over laps of the excesses above the threshold of 0.3 s
RECURSIVE GenuineExcessSum(_, _)
GenuineExcessSum(laps, i) ==
    IF i > Len(laps) THEN 0
    ELSE LET excess == Excess(RequestedLaps, laps[i], race.circuit, 2024, TrackTemp(race))
         IN  (IF excess > 300 * Den(MaxLapNumber(RequestedLaps)) THEN excess ELSE 0)
             + GenuineExcessSum(laps, i + 1)

\* -(sum x 0.6) capped at 8 s and rounded to a millisecond, for a sum that
\* is a numerator over Den(total_laps)
DiscountedCapped(sum) ==
    LET den == 5 * Den(MaxLapNumber(RequestedLaps))
    IN  -RoundDiv(Min(3 * sum, 8000 * den), den)

\* the timed laps of the driver's stints of three timed laps or more
CountedLaps ==
    SelectSeq(RequestedLaps,
              LAMBDA r : r.LapTime # NaT
                         /\ Cardinality({i \in 1..Len(RequestedLaps) :
                                RequestedLaps[i].Stint = r.Stint /\ RequestedLaps[i].LapTime # NaT}) >= 3)

\* C25 as stated: the tyre-degradation cost is the negative of the sum over
\* the stint laps of max(0, actual - predicted) x 0.6, capped so that it
\* lies in [-8.0, 0].
C25_TyreCostIsPositiveExcess ==
    LiveComputed
    => /\ last.pipeline.blame.tyre_degradation = DiscountedCapped(PositiveExcessSum(CountedLaps, 1))
       /\ last.pipeline.blame.tyre_degradation \in -8000..0

\* C25 amended: only laps more than 0.3 s slower than predicted count, each
\* with its whole excess x 0.6; the sum is capped at 8.0, negated and
\* rounded to a millisecond, so the cost lies in [-8.0, 0].
C25_TyreCostIsGenuineExcess ==
    LiveComputed
    => /\ last.pipeline.blame.tyre_degradation = DiscountedCapped(GenuineExcessSum(CountedLaps, 1))
       /\ last.pipeline.blame.tyre_degradation \in -8000..0

\* C25 witness: a report whose tyre cost is neither 0 nor the cap, for a
\* driver with a lap slower than predicted by less than the threshold.
C25_Witness ==
    /\ LiveComputed
    /\ last.pipeline.blame.tyre_degradation \in -7999..-1
    /\ \E i \in 1..Len(CountedLaps) :
          LET excess == Excess(RequestedLaps, CountedLaps[i], race.circuit, 2024, TrackTemp(race))
          IN  excess > 0 /\ excess <= 300 * Den(MaxLapNumber(RequestedLaps))

\* the race-control messages of the session, none when it has no such table
ControlMessages == IF race.messages = None THEN <<>> ELSE race.messages.rows

\* the yellow-flag messages
YellowMessages == {i \in 1..Len(ControlMessages) : Contains(ControlMessages[i].Message, "YELLOW")}

\* the driver's laps that end at or after the message i
LapsFrom(i) ==
    {n \in 1..Len(RequestedLaps) :
        ControlMessages[i].Time # NaT /\ RequestedLaps[n].Time >= ControlMessages[i].Time}

\* the safety-car deployments the driver missed: there is a first lap of
\* the driver at or after the deployment and no pit lap of the driver lies
\* within 2 laps of it
MissedDeployments ==
    {i \in 1..Len(ControlMessages) :
        /\ Contains(ControlMessages[i].Message, "SAFETY CAR DEPLOYED")
        /\ LapsFrom(i) # {}
        /\ LET first == RequestedLaps[CHOOSE n \in LapsFrom(i) : \A m \in LapsFrom(i) : n <= m].LapNumber
           IN  \A n \in 1..Len(RequestedLaps) :
                   RequestedLaps[n].PitOutTime # NaT
                      => Abs(RequestedLaps[n].LapNumber - first) > 2}

\* C26: the incident impact is -(yellow-flag messages x 0.08 + missed
\* safety-car pit opportunities x 1.2), a deployment being missed exactly
\* when no pit lap of the driver lies within 2 laps of the driver's first
\* lap at or after it.
C26_IncidentImpactFormula ==
    LiveComputed
    => last.pipeline.blame.incident_impact
          = -(Cardinality(YellowMessages) * 80 + Cardinality(MissedDeployments) * 1200)

\* C26 witness: two yellow-flag messages and two deployments; the driver
\* pitted exactly 2 laps after the first lap at or after one deployment and
\* missed the other.
C26_Witness ==
    /\ LiveComputed
    /\ Cardinality(YellowMessages) = 2
    /\ Cardinality(MissedDeployments) = 1
    /\ last.pipeline.blame.incident_impact = -1360
    /\ \E i \in 1..Len(ControlMessages), n \in 1..Len(RequestedLaps) :
          /\ Contains(ControlMessages[i].Message, "SAFETY CAR DEPLOYED")
          /\ i \notin MissedDeployments
          /\ LapsFrom(i) # {}
          /\ RequestedLaps[n].PitOutTime # NaT
          /\ \A m \in LapsFrom(i) : RequestedLaps[n].LapNumber - RequestedLaps[m].LapNumber <= 2
          /\ \E m \in LapsFrom(i) : RequestedLaps[n].LapNumber - RequestedLaps[m].LapNumber = 2

MockProduced == last # None /\ last.op = "compute_blame"

\* the total loss compute_blame computed, before it rounded it for the report
MockTotalLoss ==
    LET b == last.report.blame
    IN  Abs(b.qualifying_cost + b.tyre_degradation + b.pit_execution
            + b.strategy_error + b.car_pace_deficit + b.incident_impact)

\* C28: the optimal position compute_blame computes inline is the value of
\* compute_optimal_position for the same actual position, total loss and
\* car-pace deficit.
C28_InlineOptimalIsComputeOptimalPosition ==
    MockProduced
    => last.report.position.optimal
          = compute_optimal_position(last.report.position.actual, MockTotalLoss,
                                     last.report.blame.car_pace_deficit)

\* C28 witness: a mock report in which the car-pace floor, not the
\* recoverable positions, decides the optimal position.
C28_Witness ==
    /\ MockProduced
    /\ last.report.position.optimal < last.report.position.actual
    /\ last.report.position.optimal = (-last.report.blame.car_pace_deficit) \div 400 + 1
    /\ last.report.position.actual - (MockTotalLoss + last.report.blame.car_pace_deficit) \div 2500
          < last.report.position.optimal

(***************************************************************************)
(* Specification of the simulation game's leaderboard (main.py:285-322):   *)
(* simulations are stored by run_simulation, scores are submitted for them *)
(* by authenticated and anonymous clients, in any order.                   *)
(***************************************************************************)
MaxSimulations == 1

\* who a request is from: a registered account (USERS_DB is keyed by a free
\* string, so an account can carry the name of a seeded row), or nobody
Accounts == {"ana@pitwall.io", "strategist_max"}

\* get_current_user without credentials or with an unknown token
Anonymous == ""

\* scores a client may submit: below every seeded row, level with the
\* best, above all
Scores == {50, 94, 99}

GameCircuits == {"Monaco", "Silverstone"}

InitBoard ==
    /\ FASTF1_AVAILABLE = FALSE
    /\ ML_MODEL = None /\ ML_SCALER = None /\ ML_META = None
    /\ race = None
    /\ quali = None
    /\ PYTHONHASHSEED = 0
    /\ requests = <<>>
    /\ random = None
    /\ SIMULATIONS_DB = <<>>
    /\ LEADERBOARD_DB = SeededLeaderboard
    /\ TELEMETRY_CACHE = <<>>
    /\ last = None

\* list.sort(key=lambda x: -x["iq"]): a stable sort, rows of equal iq keep
\* their order; the row is put behind the last row of the sorted prefix
\* whose iq is not smaller
InsertByIq(sorted, row) ==
    LET before == {i \in 1..Len(sorted) : \A j \in 1..i : sorted[j].iq >= row.iq}
        n == Cardinality(before)
    IN  SubSeq(sorted, 1, n) \o <<row>> \o SubSeq(sorted, n + 1, Len(sorted))

RECURSIVE SortByIq(_)
SortByIq(rows) ==
    IF rows = <<>> THEN <<>>
    ELSE InsertByIq(SortByIq(SubSeq(rows, 1, Len(rows) - 1)), rows[Len(rows)])

\* mutant: the rows are left in the order of their submission
SubmitRows_unsorted(rows) == [i \in 1..Len(rows) |-> [rows[i] EXCEPT !.rank = i]]

\* main.py:319-321: sort, then number the rows
SubmitRows(rows) ==
    LET sorted == SortByIq(rows)
    IN  [i \in 1..Len(sorted) |-> [sorted[i] EXCEPT !.rank = i]]

\* main.py:311-318: the row of the user takes the better score, or a new
\* row is appended
Upsert(rows, current_user, iq_score, circuit) ==
    IF \E i \in 1..Len(rows) : rows[i].user = current_user
    THEN LET i == CHOOSE k \in 1..Len(rows) :
                    rows[k].user = current_user /\ \A j \in 1..(k - 1) : rows[j].user # current_user
         IN  [rows EXCEPT ![i].iq = Max(@, iq_score)]
    ELSE Append(rows, [rank |-> Len(rows) + 1, user |-> current_user, iq |-> iq_score,
                       wins |-> 1, best_circuit |-> circuit])

\* POST /api/v1/simulate: the simulation is stored under an id made from
\* the number of simulations stored so far (main.py:288-297)
RunSimulation ==
    \E current_user \in Accounts \cup {Anonymous}, circuit \in GameCircuits :
        /\ Len(SIMULATIONS_DB) < MaxSimulations
        /\ SIMULATIONS_DB' = Append(SIMULATIONS_DB,
                                    [id |-> Len(SIMULATIONS_DB),
                                     user |-> IF current_user = Anonymous THEN "anonymous" ELSE current_user,
                                     circuit |-> circuit])
        /\ last' = [op |-> "run_simulation", user |-> current_user, status |-> 200]
        /\ UNCHANGED <<startup, requests, random, LEADERBOARD_DB, TELEMETRY_CACHE>>

\* POST /api/v1/simulate/score for a simulation that is not stored: 404
SubmitScoreNotFound ==
    \E current_user \in Accounts \cup {Anonymous}, simulation_id \in 0..MaxSimulations, iq_score \in Scores :
        /\ \A i \in 1..Len(SIMULATIONS_DB) : SIMULATIONS_DB[i].id # simulation_id
        /\ last' = [op |-> "submit_score", user |-> current_user, simulation_id |-> simulation_id,
                    iq_score |-> iq_score, status |-> 404]
        /\ UNCHANGED <<world, TELEMETRY_CACHE>>

\* the same request for a stored simulation (main.py:310-322)
SubmitScore ==
    \E current_user \in Accounts \cup {Anonymous}, simulation_id \in 0..MaxSimulations, iq_score \in Scores :
        /\ \E i \in 1..Len(SIMULATIONS_DB) : SIMULATIONS_DB[i].id = simulation_id
        /\ LET sim == SIMULATIONS_DB[CHOOSE i \in 1..Len(SIMULATIONS_DB) : SIMULATIONS_DB[i].id = simulation_id]
           IN  LEADERBOARD_DB' =
                  IF current_user # Anonymous
                  THEN SubmitRows(Upsert(LEADERBOARD_DB, current_user, iq_score, sim.circuit))
                  ELSE LEADERBOARD_DB
        /\ last' = [op |-> "submit_score", user |-> current_user, simulation_id |-> simulation_id,
                    iq_score |-> iq_score, status |-> 200]
        /\ UNCHANGED <<startup, requests, random, SIMULATIONS_DB, TELEMETRY_CACHE>>

NextBoard == RunSimulation \/ SubmitScoreNotFound \/ SubmitScore

SpecBoard == InitBoard /\ [][NextBoard]_vars

\* the iq a user has on the leaderboard, -1 for a user without a row
StoredIq(rows, user) ==
    IF \E i \in 1..Len(rows) : rows[i].user = user
    THEN rows[CHOOSE i \in 1..Len(rows) : rows[i].user = user].iq
    ELSE -1

\* the users of the rows
BoardUsers(rows) == {rows[i].user : i \in 1..Len(rows)}

\* sorted by iq in non-increasing order, ranked 1..n in list order, one row
\* for each user
WellFormedBoard(rows) ==
    /\ \A i \in 1..(Len(rows) - 1) : rows[i].iq >= rows[i + 1].iq
    /\ \A i \in 1..Len(rows) : rows[i].rank = i
    /\ \A i, j \in 1..Len(rows) : rows[i].user = rows[j].user => i = j

\* C29: after any sequence of submit_score calls the leaderboard is sorted
\* by iq in non-increasing order, its ranks are 1..n in list order and each
\* user has at most one row; no step lowers a user's stored iq or removes a
\* user; a call without an authenticated user or for an unknown simulation
\* leaves the leaderboard as it was.
C29_LeaderboardInvariant ==
    /\ []WellFormedBoard(LEADERBOARD_DB)
    /\ [][/\ \A u \in BoardUsers(LEADERBOARD_DB) :
               /\ u \in BoardUsers(LEADERBOARD_DB')
               /\ StoredIq(LEADERBOARD_DB', u) >= StoredIq(LEADERBOARD_DB, u)
          /\ (last'.op = "submit_score" /\ (last'.user = Anonymous \/ last'.status = 404))
               => LEADERBOARD_DB' = LEADERBOARD_DB]_vars

\* C29 witness: an account has joined the seeded rows above all of them, a
\* seeded row was then raised level with it by its account and stays
\* behind it, and the last submission was a lower score of the new account
\* that changed nothing.
C29_Witness ==
    /\ last # None /\ last.op = "submit_score" /\ last.status = 200
    /\ Len(LEADERBOARD_DB) = 4
    /\ LEADERBOARD_DB[1].user = "ana@pitwall.io" /\ LEADERBOARD_DB[1].iq = 99
    /\ LEADERBOARD_DB[2].user = "strategist_max" /\ LEADERBOARD_DB[2].iq = 99
    /\ LEADERBOARD_DB[2].wins = 47
    /\ \A i \in 1..4 : LEADERBOARD_DB[i].rank = i
    /\ last.user = "ana@pitwall.io" /\ last.iq_score = 50

====
